---- MODULE Spec2Model ----
(***************************************************************************)
(* i18nspector: resource files are parsed into a shared key -> Resource    *)
(* map, source files are scanned for t(...) / useTranslation(...) calls,   *)
(* and the map is classified into orphaned / untranslated findings.        *)
(*                                                                         *)
(* Strings are modelled as sequences of tokens (a token stands for a run   *)
(* of characters), so that joining, concatenation, prefix and suffix tests *)
(* are computed and not assumed.                                           *)
(***************************************************************************)
EXTENDS Integers, Sequences, FiniteSets, TLC

VARIABLES
  options,                    \* index.ts: options (the two feature toggles and the paths)
  optionalResourcePaths,      \* index.ts: optionalResourcePaths
  resourceFilesByLanguageTag, \* index.ts: Map languageTag -> file paths (insertion order)
  resources,                  \* index.ts: Map key -> Resource (insertion order)
  sourceCodeProblems,         \* index.ts: problems of all source roots
  pc,                         \* position of the top-level script
  pathIndex,                  \* index of the resource / source root being processed
  entryIndex,                 \* the walker's place in the listing of the current root
  files,                      \* processResourceFiles / processSourceCodeFiles: files of the current root
  parser,                     \* jsonc parse(): the locals of the parse in progress, or Idle
  scan,                       \* parseSourceCodeFile: the locals of the scan in progress, or Idle
  sourceCodeFilesWithResourceReferences, \* index.ts
  report,                     \* index.ts: the lists and the output built by the analysis
  probe                       \* input and result of the pure functions under study

vars == <<options, optionalResourcePaths, resourceFilesByLanguageTag, resources,
          sourceCodeProblems, pc, pathIndex, entryIndex, files, parser, scan,
          sourceCodeFilesWithResourceReferences, report, probe>>

Idle == [state |-> "idle"]

\* Number.POSITIVE_INFINITY: larger than any depth or line number.
POSITIVE_INFINITY == 1000000

(***************************************************************************)
(* Strings as token sequences.                                             *)
(***************************************************************************)
RECURSIVE Concat(_)
Concat(ss) == IF ss = <<>> THEN <<>> ELSE Head(ss) \o Concat(Tail(ss))

\* Array.prototype.join
RECURSIVE Join(_, _)
Join(ss, sep) ==
  IF ss = <<>> THEN <<>>
  ELSE IF Len(ss) = 1 THEN ss[1]
  ELSE ss[1] \o sep \o Join(Tail(ss), sep)

startsWith(s, prefix) ==
  /\ Len(prefix) <= Len(s)
  /\ SubSeq(s, 1, Len(prefix)) = prefix

endsWith(s, suffix) ==
  /\ Len(suffix) <= Len(s)
  /\ SubSeq(s, Len(s) - Len(suffix) + 1, Len(s)) = suffix

Whitespace == {" ", "\t"}

RECURSIVE trimStart(_)
trimStart(s) == IF s # <<>> /\ Head(s) \in Whitespace THEN trimStart(Tail(s)) ELSE s

RECURSIVE trimEnd(_)
trimEnd(s) ==
  IF s # <<>> /\ s[Len(s)] \in Whitespace THEN trimEnd(SubSeq(s, 1, Len(s) - 1)) ELSE s

\* String.prototype.trim
trim(s) == trimEnd(trimStart(s))

(***************************************************************************)
(* Map with insertion order: a sequence of [k, v] entries.                 *)
(***************************************************************************)
MapIndex(m, k) ==
  IF \E i \in 1..Len(m) : m[i].k = k
  THEN CHOOSE i \in 1..Len(m) : m[i].k = k
  ELSE 0

MapHas(m, k) == MapIndex(m, k) # 0

MapGet(m, k) == m[MapIndex(m, k)].v

\* Map.prototype.set: an existing key keeps its place, a new one goes last.
MapSet(m, k, v) ==
  IF MapHas(m, k)
  THEN [m EXCEPT ![MapIndex(m, k)] = [k |-> k, v |-> v]]
  ELSE Append(m, [k |-> k, v |-> v])

MapKeys(m) == [i \in 1..Len(m) |-> m[i].k]

MapValues(m) == [i \in 1..Len(m) |-> m[i].v]

Range(s) == {s[i] : i \in 1..Len(s)}

(***************************************************************************)
(* Resource                                                                *)
(***************************************************************************)
\* A Resource that is born with a translation.
NewResourceTranslated(name) ==
  [key |-> name, definitions |-> <<>>, references |-> <<>>,
   translations |-> <<[k |-> "en", v |-> name]>>, isIgnored |-> FALSE]

\* new Resource(name)
NewResource(name) ==
  [key |-> name, definitions |-> <<>>, references |-> <<>>, translations |-> <<>>,
   isIgnored |-> FALSE]

\* `${filePath}:${line}`
Location(filePath, line) == filePath \o <<":", ToString(line)>>

\* resources.get(key) ?? resources.set(key, new Resource(key)).get(key)
GetOrCreate(rs, key) == IF MapHas(rs, key) THEN MapGet(rs, key) ELSE NewResource(key)

(***************************************************************************)
(* Plural suffixes and ignore directives of resource files.                *)
(***************************************************************************)
IGNORE_DIRECTIVE == "i18nspector-ignore"

PluralSuffixes == {"one", "other", "few", "many", "two", "zero", "interval", "plural"}

\* RESOURCE_KEY_REGEXP.exec(key)?.groups?.baseKey, or <<>> when there is no match:
\* a non-empty base, then _<suffix> or _ordinal_<suffix>, at the end of the key.
RESOURCE_KEY_REGEXP(key) ==
  LET n == Len(key) IN
  IF n >= 5 /\ key[n] \in PluralSuffixes /\ key[n - 1] = "_"
       /\ key[n - 2] = "ordinal" /\ key[n - 3] = "_"
    THEN SubSeq(key, 1, n - 4)
  ELSE IF n >= 3 /\ key[n] \in PluralSuffixes /\ key[n - 1] = "_"
    THEN SubSeq(key, 1, n - 2)
  ELSE <<>>

\* The index just after the whitespace that starts at i.
RECURSIVE SkipWhitespace(_, _)
SkipWhitespace(text, i) ==
  IF i <= Len(text) /\ text[i] \in Whitespace THEN SkipWhitespace(text, i + 1) ELSE i

\* IGNORE_DIRECTIVE_PATTERN followed by `terminators` or the end of the text, tried
\* at index i: "begin", "end", "plain" (the bare directive) or "none".
DirectiveAt(text, i, terminators) ==
  LET Ends(j) == j > Len(text) \/ text[j] \in terminators IN
  IF i > Len(text) \/ text[i] # IGNORE_DIRECTIVE THEN "none"
  ELSE IF i + 1 <= Len(text) /\ text[i + 1] = "-begin" /\ Ends(i + 2) THEN "begin"
  ELSE IF i + 1 <= Len(text) /\ text[i + 1] = "-end" /\ Ends(i + 2) THEN "end"
  ELSE IF Ends(i + 1) THEN "plain"
  ELSE "none"

\* new RegExp(`[*/]\\s*${IGNORE_DIRECTIVE_PATTERN}(\\*|\\s|$)`).exec(comment): the
\* leftmost match.
JsoncDirective(text) ==
  LET Hit(i) == /\ text[i] \in {"*", "/"}
                /\ DirectiveAt(text, SkipWhitespace(text, i + 1), Whitespace \cup {"*"}) # "none"
  IN IF \E i \in 1..Len(text) : Hit(i)
     THEN LET i == CHOOSE i \in 1..Len(text) : Hit(i) /\ \A j \in 1..(i - 1) : ~Hit(j)
          IN DirectiveAt(text, SkipWhitespace(text, i + 1), Whitespace \cup {"*"})
     ELSE "none"

\* new RegExp(`^[!#]\\s*${IGNORE_DIRECTIVE_PATTERN}(\\s|$)`).exec(line)
PropertiesDirective(text) ==
  IF text # <<>> /\ text[1] \in {"!", "#"}
  THEN DirectiveAt(text, SkipWhitespace(text, 2), Whitespace)
  ELSE "none"

(***************************************************************************)
(* JSONC resource parser: parse(buffer, context) drives jsonc-parser's     *)
(* visit(), whose callbacks are the actions below.  `line` is the line of  *)
(* the last event (events arrive in document order), `path` the property   *)
(* names of the objects that are open, `objectStartLines` the lines of     *)
(* their opening braces, `ignoreLines` the lines of the file on which a    *)
(* plain ignore directive was visited.                                     *)
(***************************************************************************)
\* parse() that starts inside a begin/end block.
JsoncStartInsideBlock(filePath, languageTag) ==
  [state |-> "jsonc", filePath |-> filePath, languageTag |-> languageTag,
   depth |-> 0, ignoreDepth |-> POSITIVE_INFINITY, ignoreLineNumber |-> -1,
   ignoreUntilEndDirective |-> TRUE, objectStartLineNumber |-> -1,
   resources |-> <<>>, line |-> 0, path |-> <<>>, objectStartLines |-> <<>>,
   ignoreLines |-> {}, opened |-> FALSE, events |-> 0]

\* The locals of parse() before the first event.
JsoncStart(filePath, languageTag) ==
  [state |-> "jsonc", filePath |-> filePath, languageTag |-> languageTag,
   depth |-> 0, ignoreDepth |-> POSITIVE_INFINITY, ignoreLineNumber |-> -1,
   ignoreUntilEndDirective |-> FALSE, objectStartLineNumber |-> -1,
   resources |-> <<>>, line |-> 0, path |-> <<>>, objectStartLines |-> <<>>,
   ignoreLines |-> {}, opened |-> FALSE, events |-> 0]

Parsing == parser.state = "jsonc"

\* An event at startLine: document order, and inside the root object unless it is a comment.
EventAt(startLine) ==
  /\ pc = "processResourceFiles"
  /\ Parsing
  /\ startLine >= parser.line

Tick(p, startLine) == [p EXCEPT !.line = startLine, !.events = @ + 1]

onComment(text, startLine) ==
  /\ EventAt(startLine)
  /\ LET directive == JsoncDirective(text)
         visited == [Tick(parser, startLine) EXCEPT
                       !.ignoreLines = IF directive = "plain"
                                       THEN @ \cup {startLine} ELSE @]
         last == IF parser.resources = <<>> THEN <<>>
                 ELSE parser.resources[Len(parser.resources)]
         lastIsOnThisLine ==
           /\ parser.resources # <<>>
           /\ LET definitions == MapGet(resources, last).definitions
              IN /\ MapHas(definitions, parser.languageTag)
                 /\ endsWith(MapGet(definitions, parser.languageTag),
                             <<":", ToString(startLine + 1)>>)
     IN IF parser.depth >= parser.ignoreDepth
          THEN /\ parser' = visited
               /\ UNCHANGED resources
        ELSE IF directive = "begin"
          THEN /\ parser' = [visited EXCEPT !.ignoreUntilEndDirective = TRUE]
               /\ UNCHANGED resources
        ELSE IF directive = "end"
          THEN /\ parser' = [visited EXCEPT !.ignoreUntilEndDirective = FALSE]
               /\ UNCHANGED resources
        ELSE IF directive = "plain"
          THEN IF startLine = parser.objectStartLineNumber
               THEN /\ parser' = [visited EXCEPT
                                    !.ignoreLineNumber = startLine,
                                    !.ignoreDepth = parser.depth]
                    /\ UNCHANGED resources
               ELSE /\ parser' = [visited EXCEPT !.ignoreLineNumber = startLine]
                    /\ resources' =
                         IF lastIsOnThisLine
                         THEN MapSet(resources, last,
                                     [MapGet(resources, last) EXCEPT !.isIgnored = TRUE])
                         ELSE resources
        ELSE /\ parser' = visited
             /\ UNCHANGED resources
  /\ UNCHANGED <<options, optionalResourcePaths, resourceFilesByLanguageTag,
                 sourceCodeProblems, pc, pathIndex, entryIndex, files, scan,
                 sourceCodeFilesWithResourceReferences, report, probe>>

\* A path segment: a property name (a string) or an array index (a number).
Name(text) == [type |-> "string", text |-> text]
Index(text) == [type |-> "number", text |-> text]

\* ResourceKey without the splice: the path joined as it is.
ResourceKeyUnspliced(path) == Join([i \in 1..Len(path) |-> path[i].text], <<".">>)

\* path.splice(-1, 1, baseKey) when the last segment is a plural form; path.join('.')
ResourceKey(path) ==
  LET lastSegment == path[Len(path)]
      baseKey == IF lastSegment.type = "string"
                 THEN RESOURCE_KEY_REGEXP(lastSegment.text) ELSE <<>>
      spliced == IF baseKey # <<>>
                 THEN [path EXCEPT ![Len(path)] = Name(baseKey)] ELSE path
  IN Join([i \in 1..Len(spliced) |-> spliced[i].text], <<".">>)

\* `${value}` of a JSON literal
TemplateString(value) == value.text

onLiteralValue(value, startLine, segments) ==
  /\ EventAt(startLine)
  /\ parser.depth >= 1
  /\ LET resourceKey == ResourceKey(parser.path \o segments)
         resource == GetOrCreate(resources, resourceKey)
         updated ==
           [resource EXCEPT
              !.definitions = MapSet(@, parser.languageTag,
                                     Location(parser.filePath, startLine + 1)),
              !.isIgnored = \/ resource.isIgnored
                            \/ parser.depth >= parser.ignoreDepth
                            \/ startLine = parser.ignoreLineNumber
                            \/ parser.ignoreUntilEndDirective,
              !.translations = MapSet(@, parser.languageTag, TemplateString(value))]
     IN /\ resources' = MapSet(resources, resourceKey, updated)
        /\ parser' = [Tick(parser, startLine) EXCEPT !.resources = Append(@, resourceKey)]
  /\ UNCHANGED <<options, optionalResourcePaths, resourceFilesByLanguageTag,
                 sourceCodeProblems, pc, pathIndex, entryIndex, files, scan,
                 sourceCodeFilesWithResourceReferences, report, probe>>

\* The root object (no property name) or the object value of property `name`.
onObjectBegin(startLine, name) ==
  /\ EventAt(startLine)
  /\ IF parser.opened THEN parser.depth >= 1 /\ name # <<>>
                      ELSE name = <<>>
  /\ parser' = [Tick(parser, startLine) EXCEPT
                  !.opened = TRUE,
                  !.path = IF name = <<>> THEN @ ELSE Append(@, Name(name)),
                  !.objectStartLines = Append(@, startLine),
                  !.depth = @ + 1,
                  !.objectStartLineNumber = startLine,
                  !.ignoreDepth = IF startLine = parser.ignoreLineNumber
                                  THEN parser.depth + 1 ELSE @]
  /\ UNCHANGED <<options, optionalResourcePaths, resourceFilesByLanguageTag, resources,
                 sourceCodeProblems, pc, pathIndex, entryIndex, files, scan,
                 sourceCodeFilesWithResourceReferences, report, probe>>

onObjectEnd(startLine) ==
  /\ EventAt(startLine)
  /\ parser.depth >= 1
  /\ parser' = [Tick(parser, startLine) EXCEPT
                  !.path = IF @ = <<>> THEN @ ELSE SubSeq(@, 1, Len(@) - 1),
                  !.objectStartLines = SubSeq(@, 1, Len(@) - 1),
                  !.depth = @ - 1,
                  !.ignoreDepth = IF parser.depth - 1 < @ THEN POSITIVE_INFINITY ELSE @]
  /\ UNCHANGED <<options, optionalResourcePaths, resourceFilesByLanguageTag, resources,
                 sourceCodeProblems, pc, pathIndex, entryIndex, files, scan,
                 sourceCodeFilesWithResourceReferences, report, probe>>

\* visit() returns at the end of a well-formed document; parse() returns `resources`.
JsoncReturn ==
  /\ pc = "processResourceFiles"
  /\ Parsing
  /\ parser.opened
  /\ parser.depth = 0
  /\ parser' = Idle
  /\ UNCHANGED <<options, optionalResourcePaths, resourceFilesByLanguageTag, resources,
                 sourceCodeProblems, pc, pathIndex, entryIndex, files, scan,
                 sourceCodeFilesWithResourceReferences, report, probe>>

(***************************************************************************)
(* Properties resource parser.  A file is a sequence of lines:             *)
(*   [kind |-> "property", key, value]  a key=value pair starting here     *)
(*   [kind |-> "continuation"]          a further line of the pair above   *)
(*   [kind |-> "other", text]           any other line (comment, blank)    *)
(***************************************************************************)
\* Lines not listed in properties.keyLineNumbers are taken for comments.
IsKeyLine(line) == line.kind \in {"property", "continuation"}

\* The first forEach of parse(): ranges [beginning, end] of ignored line numbers.
RECURSIVE IgnoredLineRanges(_, _, _)
IgnoredLineRanges(lines, index, ranges) ==
  IF index >= Len(lines) THEN ranges
  ELSE LET line == lines[index + 1]
           marker == IF IsKeyLine(line) THEN "none" ELSE PropertiesDirective(line.text)
           n == Len(ranges)
       IN IgnoredLineRanges(lines, index + 1,
            IF marker = "begin"
              THEN Append(ranges, <<index + 2, POSITIVE_INFINITY>>)
            ELSE IF marker = "end" /\ n > 0 /\ ranges[n][2] = POSITIVE_INFINITY
              THEN [ranges EXCEPT ![n] = <<ranges[n][1], index>>]
            ELSE ranges)

\* properties.collection: the key=value pairs with their 1-based starting lines.
Collection(lines) ==
  LET Pick(i) == lines[i].kind = "property"
      idx == SelectSeq([i \in 1..Len(lines) |-> i], Pick)
  IN [j \in 1..Len(idx) |->
        [key |-> lines[idx[j]].key, value |-> lines[idx[j]].value,
         startingLineNumber |-> idx[j]]]

\* The second forEach of parse(), from entry i on.
RECURSIVE PropertiesCollect(_, _, _, _, _)
PropertiesCollect(collection, i, ranges, context, rs) ==
  IF i > Len(collection) THEN rs
  ELSE LET value == collection[i]
           baseKey == RESOURCE_KEY_REGEXP(value.key)
           key == IF baseKey # <<>> THEN baseKey ELSE value.key
           resource == GetOrCreate(rs, key)
           updated ==
             [resource EXCEPT
                !.definitions = MapSet(@, context.languageTag,
                                       Location(context.filePath, value.startingLineNumber)),
                !.isIgnored = \E r \in 1..Len(ranges) :
                                 /\ value.startingLineNumber >= ranges[r][1]
                                 /\ value.startingLineNumber <= ranges[r][2],
                !.translations = MapSet(@, context.languageTag, value.value)]
       IN PropertiesCollect(collection, i + 1, ranges, context, MapSet(rs, key, updated))

\* properties parse(buffer, context): the shared map after the file is parsed.
PropertiesParse(lines, context, rs) ==
  PropertiesCollect(Collection(lines), 1, IgnoredLineRanges(lines, 0, <<>>), context, rs)

(***************************************************************************)
(* The top-level script and the resource walker.  The walker lists each    *)
(* directory in name order (directoryEntries), so the files of a root are  *)
(* parsed in the order of DirectoryOrder; which of them exist is an input. *)
(***************************************************************************)
NoOutput == [summary |-> <<>>, untranslated |-> <<>>, orphaned |-> <<>>, problems |-> <<>>]

NoReport ==
  [definedResources |-> <<>>, orphanedResources |-> <<>>, untranslatedResources |-> <<>>,
   output |-> NoOutput, exitCode |-> -1]

NoProbe == [node |-> Idle, result |-> Idle]

\* The options object as it is declared, with the paths given on the command line.
DefaultOptions(resourcePaths, sourceCodePaths) ==
  [baseLanguageTag |-> "en", checkForOrphanedStrings |-> TRUE,
   checkForUntranslatedStrings |-> TRUE, resourceExtensions |-> <<".json", ".jsonc">>,
   resourcePaths |-> resourcePaths,
   sourceCodeExtensions |-> <<".js", ".jsx", ".ts", ".tsx">>,
   sourceCodePaths |-> sourceCodePaths]

\* The options after --resourceExtensions=.json,.jsonc,.properties and the paths.
CommandLineOptions(resourcePaths, sourceCodePaths) ==
  [DefaultOptions(resourcePaths, sourceCodePaths) EXCEPT
     !.resourceExtensions = <<".json", ".jsonc", ".properties">>]

\* extensions.some((extension) => fileName.endsWith(extension))
nameMatchesExtensions(fileName, extensions) ==
  \E i \in 1..Len(extensions) : endsWith(fileName, <<extensions[i]>>)

\* Resource file names, in the order directoryEntries sorts them, with the
\* language tag the derived pattern captures from each.
DirectoryOrder ==
  << [name |-> <<"en", ".jsonc">>, languageTag |-> "en"],
     [name |-> <<"fr", ".jsonc">>, languageTag |-> "fr"],
     [name |-> <<"ko", ".properties">>, languageTag |-> "ko"] >>

FilePath(directoryPath, name) == directoryPath \o <<"/">> \o name

\* The parser of a file, by its extension.
ParserFor(filePath) ==
  IF filePath[Len(filePath)] \in {".json", ".jsonc"} THEN "jsonc"
  ELSE IF filePath[Len(filePath)] = ".properties" THEN "properties"
  ELSE "none"

\* The next file the walker reaches: later in the listing than the last one, and
\* the base-language file (the anchor findBaseLanguage returned) is the first.
WalkerReaches(i) ==
  /\ pc = "processResourceFiles"
  /\ parser = Idle
  /\ i \in 1..Len(DirectoryOrder)
  /\ i > entryIndex
  /\ nameMatchesExtensions(DirectoryOrder[i].name, options.resourceExtensions)
  /\ files = <<>> => DirectoryOrder[i].languageTag = options.baseLanguageTag

\* findBaseLanguage(resourcePath) returned an anchor: processResourceFiles starts.
FindBaseLanguage ==
  /\ pc = "findBaseLanguage"
  /\ pc' = "processResourceFiles"
  /\ files' = <<>>
  /\ entryIndex' = 0
  /\ UNCHANGED <<options, optionalResourcePaths, resourceFilesByLanguageTag, resources,
                 sourceCodeProblems, pathIndex, parser, scan,
                 sourceCodeFilesWithResourceReferences, report, probe>>

\* findBaseLanguage(resourcePath) returned undefined: process.exit(1).
NoBaseLanguage ==
  /\ pc = "findBaseLanguage"
  /\ pc' = "exit"
  /\ report' = [NoReport EXCEPT !.exitCode = 1]
  /\ UNCHANGED <<options, optionalResourcePaths, resourceFilesByLanguageTag, resources,
                 sourceCodeProblems, pathIndex, entryIndex, files, parser, scan,
                 sourceCodeFilesWithResourceReferences, probe>>

\* addAndProcessFile(filePath, languageTag) for a JSONC file: parse() begins.
AddAndProcessJsoncFile(i) ==
  /\ WalkerReaches(i)
  /\ LET filePath == FilePath(options.resourcePaths[pathIndex], DirectoryOrder[i].name)
         languageTag == DirectoryOrder[i].languageTag
     IN /\ ParserFor(filePath) = "jsonc"
        /\ files' = Append(files, [filePath |-> filePath, languageTag |-> languageTag])
        /\ parser' = JsoncStart(filePath, languageTag)
  /\ entryIndex' = i
  /\ UNCHANGED <<options, optionalResourcePaths, resourceFilesByLanguageTag, resources,
                 sourceCodeProblems, pc, pathIndex, scan,
                 sourceCodeFilesWithResourceReferences, report, probe>>

\* addAndProcessFile(filePath, languageTag) for a properties file with these lines.
AddAndProcessPropertiesFile(i, lines) ==
  /\ WalkerReaches(i)
  /\ LET filePath == FilePath(options.resourcePaths[pathIndex], DirectoryOrder[i].name)
         languageTag == DirectoryOrder[i].languageTag
     IN /\ ParserFor(filePath) = "properties"
        /\ files' = Append(files, [filePath |-> filePath, languageTag |-> languageTag])
        /\ resources' = PropertiesParse(lines,
                          [filePath |-> filePath, languageTag |-> languageTag], resources)
  /\ entryIndex' = i
  /\ UNCHANGED <<options, optionalResourcePaths, resourceFilesByLanguageTag,
                 sourceCodeProblems, pc, pathIndex, parser, scan,
                 sourceCodeFilesWithResourceReferences, report, probe>>

\* (resourceFilesByLanguageTag.get(tag) ?? resourceFilesByLanguageTag.set(tag, []).get(tag)).push(path)
RECURSIVE PushFiles(_, _)
PushFiles(byTag, fs) ==
  IF fs = <<>> THEN byTag
  ELSE LET f == Head(fs)
           old == IF MapHas(byTag, f.languageTag) THEN MapGet(byTag, f.languageTag) ELSE <<>>
       IN PushFiles(MapSet(byTag, f.languageTag, Append(old, f.filePath)), Tail(fs))

\* ProcessResourceFilesReturn going on with the source roots after the first resource root.
ProcessResourceFilesReturnOnce ==
  /\ pc = "processResourceFiles"
  /\ parser = Idle
  /\ files # <<>>
  /\ resourceFilesByLanguageTag' = PushFiles(resourceFilesByLanguageTag, files)
  /\ files' = <<>>
  /\ entryIndex' = 0
  /\ pc' = "processSourceCodeFiles"
  /\ pathIndex' = 1
  /\ UNCHANGED <<options, optionalResourcePaths, resources, sourceCodeProblems, parser,
                 scan, sourceCodeFilesWithResourceReferences, report, probe>>

\* processResourceFiles returned: record its files, then the next resource root, or
\* the first source root after the last one.
ProcessResourceFilesReturn ==
  /\ pc = "processResourceFiles"
  /\ parser = Idle
  /\ files # <<>>
  /\ resourceFilesByLanguageTag' = PushFiles(resourceFilesByLanguageTag, files)
  /\ files' = <<>>
  /\ entryIndex' = 0
  /\ IF pathIndex < Len(options.resourcePaths)
     THEN pc' = "findBaseLanguage" /\ pathIndex' = pathIndex + 1
     ELSE pc' = "processSourceCodeFiles" /\ pathIndex' = 1
  /\ UNCHANGED <<options, optionalResourcePaths, resources, sourceCodeProblems, parser,
                 scan, sourceCodeFilesWithResourceReferences, report, probe>>

(***************************************************************************)
(* Source code: syntax trees.  A node is a record with its type, the       *)
(* comments attached to it (comments: recast, trailingComments: Babel),    *)
(* the line and character index where it starts, and its type's fields.    *)
(***************************************************************************)
Node(type, line, index) ==
  [type |-> type, comments |-> <<>>, trailingComments |-> <<>>, line |-> line, index |-> index]

\* The child nodes of a node, in the order ast-types visits them.
Children(node) ==
  CASE node.type = "Program" -> node.body
    [] node.type = "ExpressionStatement" -> <<node.expression>>
    [] node.type = "VariableDeclaration" -> <<node.init>>
    [] node.type = "CallExpression" -> <<node.callee>> \o node.arguments
    [] node.type = "MemberExpression" -> <<node.object, node.property>>
    [] node.type = "ConditionalExpression" -> <<node.test, node.consequent, node.alternate>>
    [] node.type = "TemplateLiteral" -> node.expressions
    [] node.type = "ObjectExpression" -> node.properties
    [] node.type = "ObjectProperty" -> <<node.key, node.value>>
    [] OTHER -> <<>>

\* The paths of the call expressions nearest below the node at the end of `path`, in
\* traversal order: the calls visit() hands to visitCallExpression next.
RECURSIVE CallPathsBelow(_)
CallPathsBelow(path) ==
  LET children == Children(path[Len(path)])
      Below(child) == IF child.type = "CallExpression"
                      THEN << Append(path, child) >>
                      ELSE CallPathsBelow(Append(path, child))
  IN Concat([i \in 1..Len(children) |-> Below(children[i])])

(***************************************************************************)
(* parseSourceCodeFile                                                     *)
(***************************************************************************)
\* formatLocation(node)
formatLocation(filePath, node) == Location(filePath, node.line)

\* addProblem(description, isFatal): the problem pushed.
Problem(description, isFatal) ==
  [description |-> description, precludesStaticAnalysis |-> isFatal]

hasIgnoreDirective(node) ==
  LET isIgnoreDirective(comment) == trim(comment) = <<IGNORE_DIRECTIVE>>
  IN \/ \E i \in 1..Len(node.comments) : isIgnoreDirective(node.comments[i])
     \/ \E i \in 1..Len(node.trailingComments) : isIgnoreDirective(node.trailingComments[i])

\* isIgnored without the walk up the parents.
isIgnoredWithoutParents(nodePath) ==
  LET node == nodePath[Len(nodePath)] IN
  \/ /\ node.type = "CallExpression"
     /\ node.arguments # <<>>
     /\ hasIgnoreDirective(node.arguments[1])
  \/ hasIgnoreDirective(node)

\* isIgnored(nodePath): nodePath is the sequence of nodes from the root to the node.
RECURSIVE isIgnored(_)
isIgnored(nodePath) ==
  LET node == nodePath[Len(nodePath)] IN
  IF /\ node.type = "CallExpression"
     /\ node.arguments # <<>>
     /\ hasIgnoreDirective(node.arguments[1])
    THEN TRUE
  ELSE IF hasIgnoreDirective(node) THEN TRUE
  ELSE IF Len(nodePath) > 1 THEN isIgnored(SubSeq(nodePath, 1, Len(nodePath) - 1))
  ELSE FALSE

\* The error thrown by `for (const value of undefined)`.
TypeError == [threw |-> TRUE, value |-> <<>>]

Returned(value) == [threw |-> FALSE, value |-> value]

\* permutate(entries, precursors): the permutations returned, or TypeError when
\* entries[precursors.length] is undefined.
RECURSIVE permutate(_, _)
permutate(entries, precursors) ==
  IF Len(precursors) + 1 > Len(entries) THEN TypeError
  ELSE LET values == entries[Len(precursors) + 1]
           For(value) ==
             LET permutation == Append(precursors, value)
             IN IF Len(precursors) = Len(entries) - 1
                THEN Returned(<< permutation >>)
                ELSE permutate(entries, permutation)
           parts == [i \in 1..Len(values) |-> For(values[i])]
       IN IF \E i \in 1..Len(parts) : parts[i].threw
          THEN TypeError
          ELSE Returned(Concat([i \in 1..Len(parts) |-> parts[i].value]))

\* SortByIndex without the sort.
Unsorted(nodes) == nodes

\* Array.prototype.sort((a, b) => a.loc.start.index - b.loc.start.index): stable.
RECURSIVE SortByIndex(_)
SortByIndex(nodes) ==
  IF nodes = <<>> THEN <<>>
  ELSE LET rest == SortByIndex(Tail(nodes))
           n == Head(nodes)
           before == SelectSeq(rest, LAMBDA m : m.index < n.index)
           after == SelectSeq(rest, LAMBDA m : m.index >= n.index)
       IN before \o <<n>> \o after

\* literals.reduce(...): one string literal at the template's place whose value is
\* the concatenation of the literals' values (the raw text of a template element).
Synthesize(templateLiteral, literals) ==
  Node("StringLiteral", templateLiteral.line, templateLiteral.index)
    @@ [value |-> Concat([i \in 1..Len(literals) |->
                            IF literals[i].type = "StringLiteral"
                            THEN literals[i].value ELSE literals[i].value.raw])]

Resolved(nonLiteralExpressions, stringLiterals) ==
  [threw |-> FALSE, nonLiteralExpressions |-> nonLiteralExpressions,
   stringLiterals |-> stringLiterals]

Thrown == [threw |-> TRUE, nonLiteralExpressions |-> <<>>, stringLiterals |-> <<>>]

\* processNode(node): {nonLiteralExpressions, stringLiterals}, or the error thrown.
RECURSIVE processNode(_)
processNode(node) ==
  CASE node.type = "ConditionalExpression" ->
         LET alternateNodes == processNode(node.alternate)
             consequentNodes == processNode(node.consequent)
         IN IF alternateNodes.threw \/ consequentNodes.threw THEN Thrown
            ELSE Resolved(
                   alternateNodes.nonLiteralExpressions \o consequentNodes.nonLiteralExpressions,
                   alternateNodes.stringLiterals \o consequentNodes.stringLiterals)
    [] node.type = "StringLiteral" -> Resolved(<<>>, <<node>>)
    [] node.type = "TemplateLiteral" ->
         LET results == [i \in 1..Len(node.expressions) |-> processNode(node.expressions[i])]
         IN IF \E i \in 1..Len(results) : results[i].threw THEN Thrown
            ELSE LET expressionsAndLiterals ==
                       [i \in 1..Len(results) |-> results[i].stringLiterals]
                     permutations == permutate(expressionsAndLiterals, <<>>)
                 IN IF permutations.threw THEN Thrown
                    ELSE Resolved(
                           Concat([i \in 1..Len(results) |-> results[i].nonLiteralExpressions]),
                           [i \in 1..Len(permutations.value) |->
                              Synthesize(node,
                                SortByIndex(permutations.value[i] \o node.quasis))])
    [] OTHER -> Resolved(<<node>>, <<>>)

\* The locals of parseSourceCodeFile before the first call is visited: `program` is
\* the tree parse() returned, `todo` holds the paths of the calls visit() will reach,
\* `created` counts the Resources made here.
ScanStart(filePath, program) ==
  [state |-> "scanning", filePath |-> filePath, program |-> program, problems |-> <<>>,
   referencedResources |-> <<>>, created |-> 0, todo |-> CallPathsBelow(<<program>>)]

Scanning == scan.state = "scanning"

\* Set.prototype.add
SetAdd(set, element) == IF element \in Range(set) THEN set ELSE Append(set, element)

\* ReferenceLiterals with `if (resource)` in place of `if (resource?.definitions.size)`.
RECURSIVE ReferenceLiteralsOfAnyResource(_, _, _, _)
ReferenceLiteralsOfAnyResource(stringLiterals, i, filePath, acc) ==
  IF i > Len(stringLiterals) THEN acc
  ELSE LET stringLiteral == stringLiterals[i]
           key == stringLiteral.value
           known == MapHas(acc.resources, key)
           resource == IF known THEN MapGet(acc.resources, key) ELSE NewResource(key)
           location == formatLocation(filePath, stringLiteral)
       IN ReferenceLiteralsOfAnyResource(stringLiterals, i + 1, filePath,
            [resources |->
               MapSet(acc.resources, key,
                      [resource EXCEPT !.references = Append(@, location)]),
             problems |->
               IF known THEN acc.problems
               ELSE Append(acc.problems,
                      Problem(<<"Reference to unknown string '">> \o key \o <<"' at ">>
                                \o location, FALSE)),
             created |-> IF known THEN acc.created ELSE acc.created + 1,
             referencedResources |->
               SetAdd(acc.referencedResources,
                      [key |-> key, object |-> IF known THEN 0 ELSE acc.created + 1])])

\* stringLiterals.forEach(...) from literal i on; acc holds the shared map and the
\* problems, referencedResources and created of the scan.
RECURSIVE ReferenceLiterals(_, _, _, _)
ReferenceLiterals(stringLiterals, i, filePath, acc) ==
  IF i > Len(stringLiterals) THEN acc
  ELSE LET stringLiteral == stringLiterals[i]
           key == stringLiteral.value
           known == MapHas(acc.resources, key) /\ MapGet(acc.resources, key).definitions # <<>>
           resource == IF known THEN MapGet(acc.resources, key) ELSE NewResource(key)
           location == formatLocation(filePath, stringLiteral)
       IN ReferenceLiterals(stringLiterals, i + 1, filePath,
            [resources |->
               MapSet(acc.resources, key,
                      [resource EXCEPT !.references = Append(@, location)]),
             problems |->
               IF known THEN acc.problems
               ELSE Append(acc.problems,
                      Problem(<<"Reference to unknown string '">> \o key \o <<"' at ">>
                                \o location, FALSE)),
             created |-> IF known THEN acc.created ELSE acc.created + 1,
             referencedResources |->
               SetAdd(acc.referencedResources,
                      [key |-> key, object |-> IF known THEN 0 ELSE acc.created + 1])])

isIdentifier(node, name) == node.type = "Identifier" /\ node.name = name

\* (isIdentifier(callee) && callee.name == 't') || (isMemberExpression(callee) && ...)
isTranslationCall(call) ==
  \/ isIdentifier(call.callee, "t")
  \/ /\ call.callee.type = "MemberExpression"
     /\ isIdentifier(call.callee.property, "t")

\* isObjectExpression(optionsArgument) && optionsArgument.properties.some(...)
hasKeyPrefix(call) ==
  /\ Len(call.arguments) >= 2
  /\ call.arguments[2].type = "ObjectExpression"
  /\ \E i \in 1..Len(call.arguments[2].properties) :
       LET property == call.arguments[2].properties[i]
       IN /\ property.type = "ObjectProperty"
          /\ isIdentifier(property.key, "keyPrefix")

\* The problems a non-exempt useTranslation(...) call adds.
useTranslationProblems(call, filePath) ==
  (IF call.arguments # <<>>
   THEN << Problem(<<"Unsupported namespace at ">>
                     \o formatLocation(filePath, call.arguments[1]), TRUE) >>
   ELSE <<>>)
  \o
  (IF hasKeyPrefix(call)
   THEN << Problem(<<"Unsupported key prefix at ">>
                     \o formatLocation(filePath, call.arguments[2]), TRUE) >>
   ELSE <<>>)

\* The fatal problems of the non-literal expressions of a t(...) call.
nonLiteralProblems(nonLiteralExpressions, filePath) ==
  [i \in 1..Len(nonLiteralExpressions) |->
     Problem(<<"Non-literal of type ", nonLiteralExpressions[i].type, " at ">>
               \o formatLocation(filePath, nonLiteralExpressions[i]), TRUE)]

\* visitCallExpression(nodePath) for the next call visit() reaches.
visitCallExpression ==
  /\ pc = "processSourceCodeFiles"
  /\ Scanning
  /\ scan.todo # <<>>
  /\ LET nodePath == Head(scan.todo)
         call == nodePath[Len(nodePath)]
         traversed == CallPathsBelow(nodePath) \o Tail(scan.todo)
     IN IF isIgnored(nodePath)
          THEN /\ scan' = [scan EXCEPT !.todo = Tail(@)]
               /\ UNCHANGED <<resources, pc>>
        ELSE IF isTranslationCall(call) /\ call.arguments # <<>>
          THEN LET result == processNode(call.arguments[1])
                   acc == ReferenceLiterals(result.stringLiterals, 1, scan.filePath,
                            [resources |-> resources,
                             problems |-> scan.problems
                               \o nonLiteralProblems(result.nonLiteralExpressions, scan.filePath),
                             created |-> scan.created,
                             referencedResources |-> scan.referencedResources])
               IN IF result.threw
                  THEN /\ pc' = "crash"
                       /\ UNCHANGED <<resources, scan>>
                  ELSE /\ resources' = acc.resources
                       /\ scan' = [scan EXCEPT !.problems = acc.problems,
                                               !.created = acc.created,
                                               !.referencedResources = acc.referencedResources,
                                               !.todo = traversed]
                       /\ UNCHANGED pc
        ELSE IF isIdentifier(call.callee, "useTranslation")
          THEN /\ scan' = [scan EXCEPT
                             !.problems = @ \o useTranslationProblems(call, scan.filePath),
                             !.todo = traversed]
               /\ UNCHANGED <<resources, pc>>
        ELSE /\ scan' = [scan EXCEPT !.todo = traversed]
             /\ UNCHANGED <<resources, pc>>
  /\ UNCHANGED <<options, optionalResourcePaths, resourceFilesByLanguageTag,
                 sourceCodeProblems, pathIndex, entryIndex, files, parser,
                 sourceCodeFilesWithResourceReferences, report, probe>>

(***************************************************************************)
(* processSourceCodeFiles                                                  *)
(***************************************************************************)
\* The walker reaches a source file (entry i of the listing) with this syntax tree.
ParseSourceCodeFile(i, name, program) ==
  /\ pc = "processSourceCodeFiles"
  /\ scan = Idle
  /\ i > entryIndex
  /\ entryIndex' = i
  /\ scan' = ScanStart(FilePath(options.sourceCodePaths[pathIndex], name), program)
  /\ UNCHANGED <<options, optionalResourcePaths, resourceFilesByLanguageTag, resources,
                 sourceCodeProblems, pc, pathIndex, files, parser,
                 sourceCodeFilesWithResourceReferences, report, probe>>

\* ParseSourceCodeFileReturn pushing the path of every file that was parsed.
ParseSourceCodeFileReturnPushingAll ==
  /\ pc = "processSourceCodeFiles"
  /\ Scanning
  /\ scan.todo = <<>>
  /\ files' = Append(files, scan.filePath)
  /\ sourceCodeProblems' = sourceCodeProblems \o scan.problems
  /\ scan' = Idle
  /\ UNCHANGED <<options, optionalResourcePaths, resourceFilesByLanguageTag, resources,
                 pc, pathIndex, entryIndex, parser,
                 sourceCodeFilesWithResourceReferences, report, probe>>

\* parseSourceCodeFile returned {problems, referencedResources}.
ParseSourceCodeFileReturn ==
  /\ pc = "processSourceCodeFiles"
  /\ Scanning
  /\ scan.todo = <<>>
  /\ files' = IF scan.problems # <<>> \/ scan.referencedResources # <<>>
              THEN Append(files, scan.filePath) ELSE files
  /\ sourceCodeProblems' = sourceCodeProblems \o scan.problems
  /\ scan' = Idle
  /\ UNCHANGED <<options, optionalResourcePaths, resourceFilesByLanguageTag, resources,
                 pc, pathIndex, entryIndex, parser,
                 sourceCodeFilesWithResourceReferences, report, probe>>

(***************************************************************************)
(* index.ts: the analysis of the resources, the output and the exit code.  *)
(***************************************************************************)
\* pluralize appending the plural ending whatever the count.
pluralizeAlways(count, noun) == <<noun, "s">>

\* pluralize(count, noun)
pluralize(count, noun) == <<noun>> \o (IF count = 1 THEN <<>> ELSE <<"s">>)

\* formatCount(count, noun)
formatCount(count, noun) == <<ToString(count), " ">> \o pluralize(count, noun)

\* haveBlockingSourceCodeProblems counting nothing.
NoBlockingSourceCodeProblems(problems) == 0

\* sourceCodeProblems.reduce((count, problem) => count += +problem.precludesStaticAnalysis, 0)
haveBlockingSourceCodeProblems(problems) ==
  Len(SelectSeq(problems, LAMBDA problem : problem.precludesStaticAnalysis))

\* isInOptionalResourcePath exempting no Resource.
NotInOptionalResourcePath(resource, optional) == FALSE

\* resource.definitions.values().next().value.startsWith(optionalResourcePath), for some path
isInOptionalResourcePath(resource, optional) ==
  \E i \in 1..Len(optional) : startsWith(resource.definitions[1].v, optional[i])

\* OrphanCandidate without the isIgnored conjunct.
OrphanCandidateIgnoredToo(resource, opts, problems) ==
  /\ opts.checkForOrphanedStrings
  /\ ~(\E i \in 1..Len(problems) : problems[i].precludesStaticAnalysis)
  /\ resource.references = <<>>

\* The conjuncts of the orphan test that are evaluated before isInOptionalResourcePath.
OrphanCandidate(resource, opts, problems) ==
  /\ opts.checkForOrphanedStrings
  /\ haveBlockingSourceCodeProblems(problems) = 0
  /\ ~resource.isIgnored
  /\ resource.references = <<>>

\* `undefined.startsWith`: the first definition of a Resource without definitions is read.
AnalysisThrows(rs, opts, optional, problems) ==
  \E i \in 1..Len(rs) :
    /\ OrphanCandidate(rs[i].v, opts, problems)
    /\ optional # <<>>
    /\ rs[i].v.definitions = <<>>

\* missingLanguageTags listing every language tag seen.
everyLanguageTag(resource, byTag) == MapKeys(byTag)

\* for (const languageTag of resourceFilesByLanguageTag.keys()) if (!translations.has(...)) push
missingLanguageTags(resource, byTag) ==
  SelectSeq(MapKeys(byTag), LAMBDA languageTag : ~MapHas(resource.translations, languageTag))

\* The exit code with the orphaned Resources left out of the test.
ExitCodeOfProblems(orphanedResources, problems) == IF problems # <<>> THEN 1 ELSE 0

\* if (orphanedResources.length || sourceCodeProblems.length) process.exit(1); at the
\* end of the script, which otherwise ends with exit code 0.
ExitCode(orphanedResources, problems) ==
  IF orphanedResources # <<>> \/ problems # <<>> THEN 1 ELSE 0

\* Everything from haveBlockingSourceCodeProblems to the end of the script.
Analyze(rs, opts, optional, byTag, problems, sourceFiles) ==
  LET all == MapValues(rs)
      blocking == haveBlockingSourceCodeProblems(problems)
      definedResources == SelectSeq(all, LAMBDA resource : resource.definitions # <<>>)
      orphanedResources ==
        SelectSeq(all, LAMBDA resource :
          /\ OrphanCandidate(resource, opts, problems)
          /\ ~isInOptionalResourcePath(resource, optional))
      untranslated ==
        SelectSeq(all, LAMBDA resource :
          /\ opts.checkForUntranslatedStrings
          /\ Len(resource.translations) > 0
          /\ Len(resource.translations) < Len(byTag))
      untranslatedResources ==
        [i \in 1..Len(untranslated) |->
           [missingLanguageTags |-> missingLanguageTags(untranslated[i], byTag),
            resource |-> untranslated[i].key]]
      summary ==
        << <<"Inspected ">> \o formatCount(Len(definedResources), "string")
             \o <<", translations in ">> \o formatCount(Len(byTag), "language")
             \o <<", and references in ">>
             \o formatCount(Len(sourceFiles), "source code file") >>
      untranslatedLines ==
        IF untranslatedResources # <<>>
        THEN << <<"Untranslated strings:">> >>
               \o [i \in 1..Len(untranslatedResources) |->
                     <<"'">> \o untranslatedResources[i].resource \o <<"' (">>
                       \o Join([j \in 1..Len(untranslatedResources[i].missingLanguageTags) |->
                                  <<untranslatedResources[i].missingLanguageTags[j]>>],
                               <<", ">>)
                       \o <<")">>]
        ELSE <<>>
      orphanedLines ==
        IF orphanedResources # <<>> \/ (opts.checkForOrphanedStrings /\ blocking # 0)
        THEN << <<"Orphaned strings:">> >>
               \o (IF blocking # 0
                   THEN << <<"String references cannot be analyzed">> >>
                   ELSE [i \in 1..Len(orphanedResources) |->
                           <<"'">> \o orphanedResources[i].key \o <<"'">>])
        ELSE <<>>
      problemLines ==
        IF problems # <<>>
        THEN << <<"Source code problems:">> >>
               \o [i \in 1..Len(problems) |->
                     <<IF problems[i].precludesStaticAnalysis THEN "fatal" ELSE "error", " ">>
                       \o problems[i].description]
        ELSE <<>>
  IN [definedResources |-> [i \in 1..Len(definedResources) |-> definedResources[i].key],
      orphanedResources |-> [i \in 1..Len(orphanedResources) |-> orphanedResources[i].key],
      untranslatedResources |-> untranslatedResources,
      output |-> [summary |-> summary, untranslated |-> untranslatedLines,
                  orphaned |-> orphanedLines, problems |-> problemLines],
      exitCode |-> ExitCode(orphanedResources, problems)]

\* processSourceCodeFiles returned {files, referencedResources}: exit when it found no
\* file, go on with the next source root, or after the last one analyse and exit.
ProcessSourceCodeFilesReturn ==
  /\ pc = "processSourceCodeFiles"
  /\ scan = Idle
  /\ entryIndex' = 0
  /\ files' = <<>>
  /\ IF files = <<>>
       THEN /\ pc' = "exit"
            /\ report' = [NoReport EXCEPT !.exitCode = 1]
            /\ UNCHANGED <<pathIndex, sourceCodeFilesWithResourceReferences>>
     ELSE IF pathIndex < Len(options.sourceCodePaths)
       THEN /\ sourceCodeFilesWithResourceReferences' =
                 sourceCodeFilesWithResourceReferences \o files
            /\ pathIndex' = pathIndex + 1
            /\ UNCHANGED <<pc, report>>
     ELSE /\ sourceCodeFilesWithResourceReferences' =
               sourceCodeFilesWithResourceReferences \o files
          /\ UNCHANGED pathIndex
          /\ IF AnalysisThrows(resources, options, optionalResourcePaths, sourceCodeProblems)
             THEN pc' = "crash" /\ UNCHANGED report
             ELSE /\ pc' = "exit"
                  /\ report' = Analyze(resources, options, optionalResourcePaths,
                                       resourceFilesByLanguageTag, sourceCodeProblems,
                                       sourceCodeFilesWithResourceReferences \o files)
  /\ UNCHANGED <<options, optionalResourcePaths, resourceFilesByLanguageTag, resources,
                 sourceCodeProblems, parser, scan, probe>>

(***************************************************************************)
(* Initial states and the inputs of the resource side.                     *)
(***************************************************************************)
MaxLine == 1
MaxEvents == 5
MaxLaterEvents == 3
MaxPropertiesLines == 3

InitWith(opts, optional) ==
  /\ options = opts
  /\ optionalResourcePaths = optional
  /\ resourceFilesByLanguageTag = <<>>
  /\ resources = <<>>
  /\ sourceCodeProblems = <<>>
  /\ pc = "findBaseLanguage"
  /\ pathIndex = 1
  /\ entryIndex = 0
  /\ files = <<>>
  /\ parser = Idle
  /\ scan = Idle
  /\ sourceCodeFilesWithResourceReferences = <<>>
  /\ report = NoReport

\* A JSON string literal.
String(text) == [type |-> "string", text |-> text]

\* "foo": "Foo", "greeting_one": "One", "greeting_other": "Other"
Properties ==
  { [name |-> <<"foo">>, value |-> String(<<"Foo">>)],
    [name |-> <<"greeting", "_", "one">>, value |-> String(<<"One">>)],
    [name |-> <<"greeting", "_", "other">>, value |-> String(<<"Other">>)] }

ObjectNames == {<<"obj">>}

Comments ==
  { <<"/", "/", " ", "i18nspector-ignore">>,
    <<"/", "*", " ", "i18nspector-ignore", "-begin", " ", "*", "/">>,
    <<"/", "*", "i18nspector-ignore", "-end", "*", "/">>,
    <<"/", "/", " ", "i18nspector-ignore", "d">> }

PropertiesLines ==
  { [kind |-> "property", key |-> <<"foo">>, value |-> <<"Foo">>],
    [kind |-> "property", key |-> <<"greeting", "_", "one">>, value |-> <<"One">>] }
    \cup {[kind |-> "other", text |-> t] :
            t \in { <<"#", " ", "i18nspector-ignore", "-begin">>,
                    <<"!", "i18nspector-ignore", "-end", " ">> }}

PropertiesFiles ==
  UNION {[1..n -> PropertiesLines] : n \in 0..MaxPropertiesLines}

\* The events of a JSONC document on lines 0..maxLine: at most maxEvents events in
\* the first file of a root, at most maxLaterEvents in the others.
JsoncEvent(maxEvents, maxLaterEvents, maxLine) ==
  /\ Parsing
  /\ parser.events < (IF Len(files) = 1 THEN maxEvents ELSE maxLaterEvents)
  /\ \E startLine \in parser.line..maxLine :
       \/ \E text \in Comments : onComment(text, startLine)
       \/ \E property \in Properties :
            onLiteralValue(property.value, startLine, <<Name(property.name)>>)
       \/ \E name \in ObjectNames \cup {<<>>} : onObjectBegin(startLine, name)
       \/ onObjectEnd(startLine)

InitParse ==
  /\ InitWith(CommandLineOptions(<< <<"res">> >>, << <<"src">> >>), <<>>)
  /\ probe = NoProbe

NextParse ==
  \/ FindBaseLanguage
  \/ NoBaseLanguage
  \/ \E i \in 1..Len(DirectoryOrder) : AddAndProcessJsoncFile(i)
  \/ \E i \in 1..Len(DirectoryOrder), lines \in PropertiesFiles :
       AddAndProcessPropertiesFile(i, lines)
  \/ JsoncEvent(MaxEvents, MaxLaterEvents, MaxLine)
  \/ JsoncReturn
  \/ ProcessResourceFilesReturn

SpecParse == InitParse /\ [][NextParse]_vars

(***************************************************************************)
(* Syntax trees used as inputs.  `at` is the character index where the     *)
(* node starts; the parts of a node start after it, in source order.       *)
(***************************************************************************)
Identifier(name, line, at) == Node("Identifier", line, at) @@ [name |-> name]

StringLiteral(value, line, at) == Node("StringLiteral", line, at) @@ [value |-> value]

\* test ? consequent : alternate
ConditionalExpression(test, consequent, alternate, line, at) ==
  Node("ConditionalExpression", line, at)
    @@ [test |-> test, consequent |-> consequent, alternate |-> alternate]

TemplateElement(raw, line, at) ==
  Node("TemplateElement", line, at) @@ [value |-> [raw |-> raw, cooked |-> raw]]

TemplateLiteral(quasis, expressions, line, at) ==
  Node("TemplateLiteral", line, at) @@ [quasis |-> quasis, expressions |-> expressions]

MemberExpression(object, property, line, at) ==
  Node("MemberExpression", line, at) @@ [object |-> object, property |-> property]

CallExpression(callee, arguments, line, at) ==
  Node("CallExpression", line, at) @@ [callee |-> callee, arguments |-> arguments]

ObjectProperty(key, value, line, at) ==
  Node("ObjectProperty", line, at) @@ [key |-> key, value |-> value]

ObjectExpression(properties, line, at) ==
  Node("ObjectExpression", line, at) @@ [properties |-> properties]

ExpressionStatement(expression, line) ==
  Node("ExpressionStatement", line, 0) @@ [expression |-> expression]

\* const k = <init>;
VariableDeclaration(init, line) == Node("VariableDeclaration", line, 0) @@ [init |-> init]

Program(body) == Node("Program", 1, 0) @@ [body |-> body]

WithComment(node, comment) == [node EXCEPT !.comments = <<comment>>]

WithTrailingComment(node, comment) == [node EXCEPT !.trailingComments = <<comment>>]

\* c ? 'x' : 'y'
Ternary(x, y, line, at) ==
  ConditionalExpression(Identifier("c", line, at),
                        StringLiteral(x, line, at + 2), StringLiteral(y, line, at + 4),
                        line, at)

\* The expressions interpolated at index `at`: literals, ternaries over literals and
\* non-literals, an identifier, and (when nested) templates of these.
Interpolations(line, at) ==
  { StringLiteral(<<"a">>, line, at),
    Identifier("x", line, at),
    Ternary(<<"a">>, <<"b">>, line, at),
    Ternary(<<"a">>, <<"a">>, line, at),
    ConditionalExpression(Identifier("c", line, at), StringLiteral(<<"a">>, line, at + 2),
                          Identifier("x", line, at + 4), line, at),
    ConditionalExpression(Identifier("c", line, at), Ternary(<<"a">>, <<"b">>, line, at + 2),
                          StringLiteral(<<"c">>, line, at + 8), line, at) }

QuasiTexts == {<<>>, <<"k", ".">>}

\* `q0${e1}` and `${e1}q1${e2}` at index `at`, with e1 drawn from `first` and e2
\* from `second`.
Templates(first, second, line, at) ==
  { TemplateLiteral(<<TemplateElement(q0, line, at + 1), TemplateElement(<<>>, line, at + 20)>>,
                    <<e1>>, line, at) :
      q0 \in QuasiTexts, e1 \in first }
  \cup
  { TemplateLiteral(<<TemplateElement(<<>>, line, at + 1), TemplateElement(q1, line, at + 20),
                      TemplateElement(<<>>, line, at + 40)>>,
                    <<e1, e2>>, line, at) :
      q1 \in QuasiTexts, e1 \in first, e2 \in second }

\* `text` without interpolation
PlainTemplates(line, at) ==
  { TemplateLiteral(<<TemplateElement(q, line, at + 1)>>, <<>>, line, at) : q \in QuasiTexts }

NestedInterpolations(line, at) ==
  { TemplateLiteral(<<TemplateElement(<<"n">>, line, at + 1), TemplateElement(<<>>, line, at + 12)>>,
                    <<e>>, line, at) :
      e \in {StringLiteral(<<"a">>, line, at + 3), Ternary(<<"a">>, <<"b">>, line, at + 3)} }
  \cup { Ternary(<<"a">>, <<"b">>, line, at) }
  \cup PlainTemplates(line, at)

\* The first arguments the resolver is applied to.
ResolveInputs ==
  Interpolations(1, 2) \cup Templates(Interpolations(1, 5), Interpolations(1, 25), 1, 2)
    \cup Templates(NestedInterpolations(1, 5), NestedInterpolations(1, 25), 1, 2)
    \cup PlainTemplates(1, 2)
    \cup { CallExpression(Identifier("f", 1, 2), <<>>, 1, 2) }

(***************************************************************************)
(* The resolver alone: processNode applied to one first argument.          *)
(***************************************************************************)
InitResolve ==
  /\ InitWith(CommandLineOptions(<< <<"res">> >>, << <<"src">> >>), <<>>)
  /\ \E node \in ResolveInputs : probe = [node |-> node, result |-> Idle]

Resolve ==
  /\ probe.result = Idle
  /\ probe' = [probe EXCEPT !.result = processNode(probe.node)]
  /\ UNCHANGED <<options, optionalResourcePaths, resourceFilesByLanguageTag, resources,
                 sourceCodeProblems, pc, pathIndex, entryIndex, files, parser, scan,
                 sourceCodeFilesWithResourceReferences, report>>

NextResolve == Resolve

SpecResolve == InitResolve /\ [][NextResolve]_vars

(***************************************************************************)
(* Source statements used as inputs.  Every statement is on one line.      *)
(***************************************************************************)
Ignore == <<" ", "i18nspector-ignore", " ">>

\* t(argument)
T(argument, line) == CallExpression(Identifier("t", line, 0), <<argument>>, line, 0)

\* f(arguments)
F(arguments, line) == CallExpression(Identifier("f", line, 0), arguments, line, 0)

\* useTranslation(arguments)
UseTranslation(arguments, line) ==
  CallExpression(Identifier("useTranslation", line, 0), arguments, line, 0)

\* { key: 'a' }
Object(key, line) ==
  ObjectExpression(<<ObjectProperty(key, StringLiteral(<<"a">>, line, 30), line, 20)>>, line, 19)

Key(k, line) == StringLiteral(<<k>>, line, 2)

\* t('foo'); t('baz'); t(x); t('baz' /* i18nspector-ignore */);
CoreStatements(line) ==
  { ExpressionStatement(T(Key("foo", line), line), line),
    ExpressionStatement(T(Key("baz", line), line), line),
    ExpressionStatement(T(Identifier("x", line, 2), line), line),
    ExpressionStatement(T(WithTrailingComment(Key("baz", line), Ignore), line), line) }

TranslationStatements(line) ==
  { \* i18n.t('foo');
    ExpressionStatement(
      CallExpression(MemberExpression(Identifier("i18n", line, 0), Identifier("t", line, 5),
                                      line, 0),
                     <<Key("foo", line)>>, line, 0), line),
    \* t(c ? 'foo' : 'baz');  t(c ? 'baz' : 'baz');  t(c ? 'foo' : x);
    ExpressionStatement(T(Ternary(<<"foo">>, <<"baz">>, line, 2), line), line),
    ExpressionStatement(T(Ternary(<<"baz">>, <<"baz">>, line, 2), line), line),
    ExpressionStatement(
      T(ConditionalExpression(Identifier("c", line, 2), Key("foo", line),
                              Identifier("x", line, 8), line, 2), line), line),
    \* t(`${c ? 'a' : 'b'}`);  t(`a${x}`);  t(`foo`);
    ExpressionStatement(
      T(TemplateLiteral(<<TemplateElement(<<>>, line, 3), TemplateElement(<<>>, line, 20)>>,
                        <<Ternary(<<"a">>, <<"b">>, line, 5)>>, line, 2), line), line),
    ExpressionStatement(
      T(TemplateLiteral(<<TemplateElement(<<"a">>, line, 3), TemplateElement(<<>>, line, 20)>>,
                        <<Identifier("x", line, 5)>>, line, 2), line), line),
    ExpressionStatement(
      T(TemplateLiteral(<<TemplateElement(<<"foo">>, line, 3)>>, <<>>, line, 2), line), line),
    \* t();  t(t('baz'));  f(t('baz'));
    ExpressionStatement(CallExpression(Identifier("t", line, 0), <<>>, line, 0), line),
    ExpressionStatement(T(T(Key("baz", line), line), line), line),
    ExpressionStatement(F(<<T(Key("baz", line), line)>>, line), line) }

IgnoredStatements(line) ==
  { \* t(x /* i18nspector-ignore */);
    ExpressionStatement(T(WithTrailingComment(Identifier("x", line, 2), Ignore), line), line),
    \* (/* i18nspector-ignore */ t('baz'));
    ExpressionStatement(WithComment(T(Key("baz", line), line), Ignore), line),
    \* /* i18nspector-ignore */ t(x);
    WithComment(ExpressionStatement(T(Identifier("x", line, 2), line), line), Ignore),
    \* const k = t('baz'); // i18nspector-ignore
    WithTrailingComment(VariableDeclaration(T(Key("baz", line), line), line), Ignore),
    \* /* i18nspector-ignore */ f(t('baz'));
    WithComment(ExpressionStatement(F(<<T(Key("baz", line), line)>>, line), line), Ignore),
    \* f(x /* i18nspector-ignore */, t('baz'));
    ExpressionStatement(
      F(<<WithTrailingComment(Identifier("x", line, 2), Ignore), T(Key("baz", line), line)>>,
        line), line),
    \* t(f(t('baz')) /* i18nspector-ignore */);
    ExpressionStatement(
      T(WithTrailingComment(F(<<T(Key("baz", line), line)>>, line), Ignore), line), line),
    \* t('baz' /* i18nspector-ignored */);  t('baz' /* i18nspector-ignore: legacy */);
    ExpressionStatement(
      T(WithTrailingComment(Key("baz", line), <<" ", "i18nspector-ignore", "d", " ">>), line),
      line),
    ExpressionStatement(
      T(WithTrailingComment(Key("baz", line),
                            <<" ", "i18nspector-ignore", ":", " ", "legacy", " ">>), line),
      line),
    \* /* i18nspector-ignore */ useTranslation('ns', {keyPrefix: 'a'});
    WithComment(
      ExpressionStatement(
        UseTranslation(<<Key("ns", line), Object(Identifier("keyPrefix", line, 20), line)>>,
                       line), line), Ignore) }

UseTranslationStatements(line) ==
  { \* useTranslation();  useTranslation('ns');  useTranslation('');
    ExpressionStatement(UseTranslation(<<>>, line), line),
    ExpressionStatement(UseTranslation(<<Key("ns", line)>>, line), line),
    ExpressionStatement(UseTranslation(<<StringLiteral(<<>>, line, 2)>>, line), line),
    \* useTranslation(x, y);
    ExpressionStatement(
      UseTranslation(<<Identifier("x", line, 2), Identifier("y", line, 19)>>, line), line) }
  \cup
  \* useTranslation('', {keyPrefix: 'a'});  useTranslation('', {'keyPrefix': 'a'});
  \* useTranslation('', {other: 'a'});
  { ExpressionStatement(
      UseTranslation(<<StringLiteral(<<>>, line, 2), Object(key, line)>>, line), line) :
      key \in { Identifier("keyPrefix", line, 20), StringLiteral(<<"keyPrefix">>, line, 20),
                Identifier("other", line, 20) } }

\* A file of one statement, or of two of the core statements.
Programs ==
  { Program(<<statement>>) :
      statement \in CoreStatements(1) \cup TranslationStatements(1)
                      \cup IgnoredStatements(1) \cup UseTranslationStatements(1) }
  \cup { Program(<<first, second>>) : first \in CoreStatements(1), second \in CoreStatements(2) }

SourceFileName == <<"app", ".tsx">>

(***************************************************************************)
(* The source side: one resource file en.jsonc of at most                  *)
(* MaxSourceLiterals properties on one line, then one source file.         *)
(***************************************************************************)
MaxSourceLiterals == 2

SourceProperties ==
  { [name |-> <<k>>, value |-> String(<<"A">>)] : k \in {"foo", "a", "b"} }

InitSource ==
  /\ InitWith(CommandLineOptions(<< <<"res">> >>, << <<"src">> >>), <<>>)
  /\ probe = NoProbe

NextSource ==
  \/ FindBaseLanguage
  \/ AddAndProcessJsoncFile(1)
  \/ onObjectBegin(0, <<>>)
  \/ \E property \in SourceProperties :
       /\ Parsing
       /\ Len(parser.resources) < MaxSourceLiterals
       /\ onLiteralValue(property.value, 0, <<Name(property.name)>>)
  \/ onObjectEnd(0)
  \/ JsoncReturn
  \/ ProcessResourceFilesReturn
  \/ \E program \in Programs : ParseSourceCodeFile(1, SourceFileName, program)
  \/ visitCallExpression
  \/ ParseSourceCodeFileReturn
  \/ ProcessSourceCodeFilesReturn

SpecSource == InitSource /\ [][NextSource]_vars

(***************************************************************************)
(* A whole run: en.jsonc of at most MaxRunEvents events on one line after  *)
(* its opening brace, ko.properties of at most MaxRunPropertiesLines       *)
(* lines, then one source file of the core statements.                     *)
(***************************************************************************)
MaxRunEvents == 3
MaxRunPropertiesLines == 1

RunProperties ==
  { [name |-> <<"foo">>, value |-> String(<<"Foo">>)],
    [name |-> <<"bar">>, value |-> String(<<"Bar">>)] }

RunPropertiesFiles ==
  UNION { [1..n -> { [kind |-> "property", key |-> <<"foo">>, value |-> <<"Foo">>],
                     [kind |-> "property", key |-> <<"bar">>, value |-> <<"Bar">>] }] :
            n \in 0..MaxRunPropertiesLines }

RunPrograms ==
  { Program(<<statement>>) : statement \in CoreStatements(1) }
  \cup { Program(<<first, second>>) :
           first \in CoreStatements(1),
           second \in { ExpressionStatement(T(Key(k, 2), 2), 2) :
                         k \in {"foo", "baz", "unknown"} } }

\* The command line: --checkForOrphanedStrings, --checkForUntranslatedStrings, and
\* --resourcePaths=res or --resourcePaths=res?
Init ==
  /\ \E orphaned \in BOOLEAN, untranslated \in BOOLEAN, optional \in {<<>>, << <<"res">> >>} :
       InitWith([CommandLineOptions(<< <<"res">> >>, << <<"src">> >>) EXCEPT
                   !.checkForOrphanedStrings = orphaned,
                   !.checkForUntranslatedStrings = untranslated],
                optional)
  /\ probe = NoProbe

Next ==
  \/ FindBaseLanguage
  \/ NoBaseLanguage
  \/ AddAndProcessJsoncFile(1)
  \/ \E lines \in RunPropertiesFiles : AddAndProcessPropertiesFile(3, lines)
  \/ onObjectBegin(0, <<>>)
  \/ \E property \in RunProperties :
       /\ Parsing
       /\ parser.events <= MaxRunEvents
       /\ onLiteralValue(property.value, 0, <<Name(property.name)>>)
  \/ /\ Parsing
     /\ parser.events <= MaxRunEvents
     /\ onComment(<<"/", "/", " ", "i18nspector-ignore">>, 0)
  \/ onObjectEnd(0)
  \/ JsoncReturn
  \/ ProcessResourceFilesReturn
  \/ \E program \in RunPrograms : ParseSourceCodeFile(1, SourceFileName, program)
  \/ visitCallExpression
  \/ ParseSourceCodeFileReturn
  \/ ProcessSourceCodeFilesReturn

Spec == Init /\ [][Next]_vars

(***************************************************************************)
(* Properties of the classification (specification Spec).                  *)
(***************************************************************************)
\* The run went through the classification and printed its summary.
Classified == pc = "exit" /\ report.output.summary # <<>>

HasFatalProblem ==
  \E i \in 1..Len(sourceCodeProblems) : sourceCodeProblems[i].precludesStaticAnalysis

Unreferenced(resource) ==
  resource.definitions # <<>> /\ resource.references = <<>> /\ ~resource.isIgnored

\* C1: when the problems list holds a fatal problem after all source roots are
\* scanned, the orphaned list is empty whatever Resources are unreferenced, and the
\* orphan output is nothing but the one "cannot be analyzed" diagnostic under its header.
C1_FatalProblemSuppressesOrphans ==
  (Classified /\ HasFatalProblem) =>
    /\ report.orphanedResources = <<>>
    /\ report.output.orphaned =
         IF options.checkForOrphanedStrings
         THEN << <<"Orphaned strings:">>, <<"String references cannot be analyzed">> >>
         ELSE <<>>

C1_Witness ==
  /\ Classified
  /\ HasFatalProblem
  /\ options.checkForOrphanedStrings
  /\ optionalResourcePaths = <<>>
  /\ \E i \in 1..Len(resources) : Unreferenced(resources[i].v)
  /\ Len(report.output.orphaned) = 2

\* C2: with no optional resource path, a Resource of the shared map is in the orphaned
\* list exactly when orphan checking is enabled, the run has no fatal problem, the
\* Resource is not ignored and it has no reference.
C2_OrphanedIff ==
  (Classified /\ optionalResourcePaths = <<>>) =>
    /\ Range(report.orphanedResources) \subseteq Range(MapKeys(resources))
    /\ \A i \in 1..Len(resources) :
         LET resource == resources[i].v IN
         (resource.key \in Range(report.orphanedResources))
           <=> /\ options.checkForOrphanedStrings
               /\ ~HasFatalProblem
               /\ ~resource.isIgnored
               /\ resource.references = <<>>

C2_Witness ==
  /\ Classified
  /\ optionalResourcePaths = <<>>
  /\ report.orphanedResources = << <<"bar">> >>
  /\ MapHas(resources, <<"foo">>)
  /\ MapGet(resources, <<"foo">>).isIgnored
  /\ MapGet(resources, <<"foo">>).references = <<>>

\* C3: a Resource is in the untranslated list exactly when untranslated checking is
\* enabled and it has some translation but fewer than there are language tags; its
\* missing tags are exactly the seen tags without a translation, and at least one;
\* nothing else (isIgnored, references, fatal problems) enters the test.
C3_UntranslatedIff ==
  Classified =>
    /\ \A i \in 1..Len(resources) :
         LET resource == resources[i].v IN
         (\E j \in 1..Len(report.untranslatedResources) :
            report.untranslatedResources[j].resource = resource.key)
           <=> /\ options.checkForUntranslatedStrings
               /\ 0 < Len(resource.translations)
               /\ Len(resource.translations) < Len(resourceFilesByLanguageTag)
    /\ \A j \in 1..Len(report.untranslatedResources) :
         LET entry == report.untranslatedResources[j]
             resource == MapGet(resources, entry.resource)
         IN /\ MapHas(resources, entry.resource)
            /\ entry.missingLanguageTags # <<>>
            /\ Cardinality(Range(entry.missingLanguageTags)) = Len(entry.missingLanguageTags)
            /\ Range(entry.missingLanguageTags) =
                 { languageTag \in Range(MapKeys(resourceFilesByLanguageTag)) :
                     ~MapHas(resource.translations, languageTag) }

C3_Witness ==
  /\ Classified
  /\ HasFatalProblem
  /\ \E j \in 1..Len(report.untranslatedResources) :
       LET entry == report.untranslatedResources[j]
       IN /\ entry.missingLanguageTags = <<"ko">>
          /\ MapGet(resources, entry.resource).isIgnored
          /\ MapGet(resources, entry.resource).references = <<>>
  /\ \E i \in 1..Len(resources) : Len(resources[i].v.translations) = 2

\* C9: after all source roots are scanned, the Resource stored under K lists the
\* location of every non-exempt t(...) call site that resolved to K, the unknown
\* ones (each reported as "Reference to unknown string 'K' at <location>") included.
C9_ReferencesListEveryCallSite ==
  Classified =>
    \A i \in 1..Len(sourceCodeProblems), j \in 1..Len(resources) :
      LET description == sourceCodeProblems[i].description
          naming == <<"Reference to unknown string '">> \o resources[j].k \o <<"' at ">>
      IN startsWith(description, naming) =>
           SubSeq(description, Len(naming) + 1, Len(description))
             \in Range(resources[j].v.references)

IsPluralForm(key) ==
  /\ Len(key) >= 3
  /\ key[Len(key) - 1] = "_"
  /\ key[Len(key)] \in {"one", "other"}

\* C5: the plural variants of a key, in whatever file, language or format they are
\* defined, land on the one Resource keyed by the base key: the translations of
\* greeting_one ("One") and greeting_other ("Other") are held by a Resource whose key
\* ends in greeting, keys are unique, and no Resource is keyed by a suffixed name.
C5_PluralFormsShareOneResource ==
  \A i \in 1..Len(resources) :
    LET resource == resources[i].v IN
    /\ resource.key = resources[i].k
    /\ ~IsPluralForm(resource.key)
    /\ \A j \in 1..Len(resources) : resources[j].k = resources[i].k => j = i
    /\ \A j \in 1..Len(resource.translations) :
         resource.translations[j].v \in {<<"One">>, <<"Other">>}
           => resource.key[Len(resource.key)] = "greeting"

C5_Witness ==
  /\ MapHas(resources, <<"greeting">>)
  /\ LET resource == MapGet(resources, <<"greeting">>)
     IN /\ MapHas(resource.translations, "en")
        /\ MapGet(resource.translations, "en") = <<"Other">>
        /\ MapHas(resource.translations, "ko")
        /\ MapGet(resource.translations, "ko") = <<"One">>
        /\ Len(resource.definitions) = 2
  /\ Len(resources) = 1

(***************************************************************************)
(* Properties of the source scan (specification SpecSource).               *)
(***************************************************************************)
\* visit() is about to hand the next call to visitCallExpression.
Visiting == pc = "processSourceCodeFiles" /\ Scanning /\ scan.todo # <<>>

HasBareDirective(node) ==
  \E comment \in Range(node.comments) \cup Range(node.trailingComments) :
    trim(comment) = <<"i18nspector-ignore">>

\* The directive is on the first argument of the call, on the call or on an ancestor.
ExemptCall(nodePath) ==
  LET call == nodePath[Len(nodePath)] IN
  \/ call.arguments # <<>> /\ HasBareDirective(call.arguments[1])
  \/ \E j \in 1..Len(nodePath) : HasBareDirective(nodePath[j])

\* The problems the step adds to those of the scan.
AddedProblems == SubSeq(scan'.problems, Len(scan.problems) + 1, Len(scan'.problems))

\* C6: a call with the bare directive on its first argument, on itself or on an
\* ancestor changes nothing: no problem, no reference, no Resource created, and the
\* calls nested inside it are not visited.
C6_ExemptCallHasNoEffect ==
  [][(Visiting /\ ExemptCall(Head(scan.todo))) =>
       /\ pc' = pc
       /\ resources' = resources
       /\ scan'.state = "scanning"
       /\ scan'.problems = scan.problems
       /\ scan'.referencedResources = scan.referencedResources
       /\ scan'.todo = Tail(scan.todo)]_vars

\* /* i18nspector-ignore */ f(t('baz')); has been scanned.
C6_Witness ==
  /\ Scanning
  /\ scan.todo = <<>>
  /\ scan.problems = <<>>
  /\ scan.referencedResources = <<>>
  /\ ~MapHas(resources, <<"baz">>)
  /\ scan.program.body[1].comments = <<Ignore>>
  /\ scan.program.body[1].expression.callee.name = "f"
  /\ Len(CallPathsBelow(<<scan.program>>)) = 1

Occurrences(seq, value) == Cardinality({i \in 1..Len(seq) : seq[i] = value})

\* C8: a non-exempt t(...) call appends, for each literal key K it resolves to, the
\* location to the references of K's Resource when that Resource has a definition,
\* with no problem; otherwise it emits one non-fatal problem naming K and leaves a
\* Resource without definitions under K.  No definitions, translations or isIgnored change.
C8_ReferenceOrUnknownProblem ==
  [][(/\ Visiting
      /\ ~ExemptCall(Head(scan.todo))
      /\ ~isIgnored(Head(scan.todo))
      /\ isTranslationCall(Head(scan.todo)[Len(Head(scan.todo))])
      /\ Head(scan.todo)[Len(Head(scan.todo))].arguments # <<>>
      /\ ~processNode(Head(scan.todo)[Len(Head(scan.todo))].arguments[1]).threw) =>
       LET call == Head(scan.todo)[Len(Head(scan.todo))]
           literals == processNode(call.arguments[1]).stringLiterals
           keys == [i \in 1..Len(literals) |-> literals[i].value]
           Known(K) == MapHas(resources, K) /\ MapGet(resources, K).definitions # <<>>
           Naming(K) ==
             { i \in 1..Len(AddedProblems) :
                 /\ ~AddedProblems[i].precludesStaticAnalysis
                 /\ startsWith(AddedProblems[i].description,
                               <<"Reference to unknown string '">> \o K \o <<"' at ">>) }
       IN /\ scan'.state = "scanning"
          /\ \A K \in Range(keys) :
               /\ MapHas(resources', K)
               /\ IF Known(K)
                  THEN /\ Naming(K) = {}
                       /\ MapGet(resources', K).references =
                            MapGet(resources, K).references
                              \o [n \in 1..Occurrences(keys, K) |->
                                    Location(scan.filePath, call.line)]
                  ELSE /\ Cardinality(Naming(K)) = Occurrences(keys, K)
                       /\ MapGet(resources', K).definitions = <<>>
          /\ Cardinality({ i \in 1..Len(AddedProblems) :
                             ~AddedProblems[i].precludesStaticAnalysis })
               = Cardinality({ i \in 1..Len(keys) : ~Known(keys[i]) })
          /\ \A i \in 1..Len(resources) :
               /\ MapHas(resources', resources[i].k)
               /\ LET before == resources[i].v
                      after == MapGet(resources', resources[i].k)
                  IN /\ after.definitions = before.definitions
                     /\ after.translations = before.translations
                     /\ after.isIgnored = before.isIgnored
          /\ \A i \in 1..Len(resources') :
               \/ MapHas(resources, resources'[i].k)
               \/ /\ resources'[i].v.definitions = <<>>
                  /\ resources'[i].v.translations = <<>>
                  /\ ~resources'[i].v.isIgnored]_vars

\* t('foo'); t('baz'); has been scanned with foo defined and baz not.
C8_Witness ==
  /\ Scanning
  /\ scan.todo = <<>>
  /\ Len(scan.program.body) = 2
  /\ MapHas(resources, <<"foo">>)
  /\ MapGet(resources, <<"foo">>).definitions # <<>>
  /\ MapGet(resources, <<"foo">>).references = <<Location(scan.filePath, 1)>>
  /\ MapHas(resources, <<"baz">>)
  /\ MapGet(resources, <<"baz">>).definitions = <<>>
  /\ Len(scan.problems) = 1
  /\ ~scan.problems[1].precludesStaticAnalysis

\* The second argument is an object literal with a property named keyPrefix.
HasKeyPrefixProperty(call) ==
  /\ Len(call.arguments) >= 2
  /\ call.arguments[2].type = "ObjectExpression"
  /\ \E i \in 1..Len(call.arguments[2].properties) :
       LET key == call.arguments[2].properties[i].key
       IN \/ key.type = "Identifier" /\ key.name = "keyPrefix"
          \/ key.type = "StringLiteral" /\ key.value = <<"keyPrefix">>

\* C10: a non-exempt useTranslation(...) call emits a fatal "Unsupported namespace"
\* problem exactly when it has a first argument and a fatal "Unsupported key prefix"
\* problem exactly when its second argument is an object literal with a keyPrefix
\* property, and no other problem.
C10_UseTranslationProblems ==
  [][(/\ Visiting
      /\ ~isIgnored(Head(scan.todo))
      /\ isIdentifier(Head(scan.todo)[Len(Head(scan.todo))].callee, "useTranslation")) =>
       LET call == Head(scan.todo)[Len(Head(scan.todo))]
           Fatal(text) ==
             { i \in 1..Len(AddedProblems) :
                 /\ AddedProblems[i].precludesStaticAnalysis
                 /\ startsWith(AddedProblems[i].description, <<text>>) }
       IN /\ scan'.state = "scanning"
          /\ Cardinality(Fatal("Unsupported namespace at ")) =
               (IF call.arguments # <<>> THEN 1 ELSE 0)
          /\ Cardinality(Fatal("Unsupported key prefix at ")) =
               (IF HasKeyPrefixProperty(call) THEN 1 ELSE 0)
          /\ Len(AddedProblems) = Cardinality(Fatal("Unsupported namespace at "))
                                    + Cardinality(Fatal("Unsupported key prefix at "))]_vars

(***************************************************************************)
(* Properties of the resolver (specification SpecResolve).                 *)
(***************************************************************************)
RECURSIVE Product(_)
Product(numbers) == IF numbers = <<>> THEN 1 ELSE Head(numbers) * Product(Tail(numbers))

\* The renderings of a template from its text segment i on, given the literal options
\* of each interpolation: segment, option, segment, ... in source order.
RECURSIVE Renderings(_, _, _)
Renderings(template, i, options_) ==
  IF i > Len(options_) THEN << template.quasis[i].value.raw >>
  ELSE LET rest == Renderings(template, i + 1, options_)
       IN Concat([o \in 1..Len(options_[i]) |->
                    [r \in 1..Len(rest) |->
                       template.quasis[i].value.raw \o options_[i][o] \o rest[r]]])

\* The literal options of an expression: a string literal is its value, a conditional
\* has those of its two branches, a template with interpolations its renderings;
\* anything else is not literal.
RECURSIVE LiteralOptions(_)
LiteralOptions(node) ==
  CASE node.type = "StringLiteral" -> [literal |-> TRUE, options |-> <<node.value>>]
    [] node.type = "ConditionalExpression" ->
         LET consequent == LiteralOptions(node.consequent)
             alternate == LiteralOptions(node.alternate)
         IN [literal |-> consequent.literal /\ alternate.literal,
             options |-> consequent.options \o alternate.options]
    [] node.type = "TemplateLiteral" /\ node.expressions # <<>> ->
         LET each == [i \in 1..Len(node.expressions) |-> LiteralOptions(node.expressions[i])]
         IN [literal |-> \A i \in 1..Len(each) : each[i].literal,
             options |-> Renderings(node, 1, [i \in 1..Len(each) |-> each[i].options])]
    [] OTHER -> [literal |-> FALSE, options |-> <<>>]

\* C7: for a template whose interpolations all resolve to literal options, the
\* resolver returns no non-literal expression and one string literal, at the place of
\* the template, per combination of one option for each interpolation: as many as
\* the product of the numbers of options, each the concatenation of the text segments
\* and the chosen options in source order.
C7_TemplatePermutations ==
  (/\ probe.result # Idle
   /\ probe.node.type = "TemplateLiteral"
   /\ probe.node.expressions # <<>>
   /\ LiteralOptions(probe.node).literal) =>
    LET expected == LiteralOptions(probe.node).options
        returned == [i \in 1..Len(probe.result.stringLiterals) |->
                       probe.result.stringLiterals[i].value]
    IN /\ ~probe.result.threw
       /\ probe.result.nonLiteralExpressions = <<>>
       /\ Len(returned) =
            Product([i \in 1..Len(probe.node.expressions) |->
                       Len(LiteralOptions(probe.node.expressions[i]).options)])
       /\ \A value \in Range(returned) \cup Range(expected) :
            Occurrences(returned, value) = Occurrences(expected, value)
       /\ \A i \in 1..Len(probe.result.stringLiterals) :
            /\ probe.result.stringLiterals[i].type = "StringLiteral"
            /\ probe.result.stringLiterals[i].line = probe.node.line

\* `${c ? 'a' : 'b'}k.${c ? 'a' : 'b'}` has been resolved to its four renderings.
C7_Witness ==
  /\ probe.result # Idle
  /\ probe.node.type = "TemplateLiteral"
  /\ Len(probe.node.expressions) = 2
  /\ ~probe.result.threw
  /\ probe.result.nonLiteralExpressions = <<>>
  /\ { probe.result.stringLiterals[i].value : i \in 1..Len(probe.result.stringLiterals) }
       = { <<"a", "k", ".", "a">>, <<"a", "k", ".", "b">>,
           <<"b", "k", ".", "a">>, <<"b", "k", ".", "b">> }
  /\ Len(probe.result.stringLiterals) = 4

(***************************************************************************)
(* Two resource roots, `res` and `opt`, given in either order with `opt`   *)
(* marked optional (--resourcePaths=res,opt? or =opt?,res): in each root   *)
(* en.jsonc of at most MaxRootEvents events after its opening brace and    *)
(* ko.properties of at most MaxRunPropertiesLines lines, then one source   *)
(* file of one call.                                                       *)
(***************************************************************************)
MaxRootEvents == 1

RootsPrograms ==
  { Program(<<ExpressionStatement(T(Key(k, 1), 1), 1)>>) : k \in {"foo", "baz"} }

InitRoots ==
  /\ \E resourcePaths \in { << <<"res">>, <<"opt">> >>, << <<"opt">>, <<"res">> >> },
        sourceCodePaths \in { << <<"src">>, <<"lib">> >>, << <<"lib">>, <<"src">> >> } :
       InitWith(CommandLineOptions(resourcePaths, sourceCodePaths), << <<"opt">> >>)
  /\ probe = NoProbe

NextRoots ==
  \/ FindBaseLanguage
  \/ NoBaseLanguage
  \/ AddAndProcessJsoncFile(1)
  \/ \E lines \in RunPropertiesFiles : AddAndProcessPropertiesFile(3, lines)
  \/ onObjectBegin(0, <<>>)
  \/ \E property \in RunProperties :
       /\ Parsing
       /\ parser.events <= MaxRootEvents
       /\ onLiteralValue(property.value, 0, <<Name(property.name)>>)
  \/ onObjectEnd(0)
  \/ JsoncReturn
  \/ ProcessResourceFilesReturn
  \/ \E program \in RootsPrograms : ParseSourceCodeFile(1, SourceFileName, program)
  \/ visitCallExpression
  \/ ParseSourceCodeFileReturn
  \/ ProcessSourceCodeFilesReturn

SpecRoots == InitRoots /\ [][NextRoots]_vars

(***************************************************************************)
(* Properties of the optional resource paths (specification SpecRoots).    *)
(***************************************************************************)
\* The definition location lies under one of the optional resource paths.
UnderOptionalPath(location) ==
  \E i \in 1..Len(optionalResourcePaths) : startsWith(location, optionalResourcePaths[i])

\* C11: a Resource all of whose definition locations lie under an optional resource
\* path is never in the orphaned list, even when it has no reference, is not ignored
\* and the run has no fatal problem.
C11_OnlyOptionalNeverOrphaned ==
  Classified =>
    \A i \in 1..Len(resources) :
      LET resource == resources[i].v IN
      (/\ resource.definitions # <<>>
       /\ \A d \in 1..Len(resource.definitions) :
            UnderOptionalPath(resource.definitions[d].v))
        => resource.key \notin Range(report.orphanedResources)

\* `foo` is defined under `opt` alone and nothing refers to it, while `bar`, defined
\* under `res`, is orphaned.
C11_Witness ==
  /\ Classified
  /\ ~HasFatalProblem
  /\ MapHas(resources, <<"foo">>) /\ MapHas(resources, <<"bar">>)
  /\ Unreferenced(MapGet(resources, <<"foo">>))
  /\ \A d \in 1..Len(MapGet(resources, <<"foo">>).definitions) :
       startsWith(MapGet(resources, <<"foo">>).definitions[d].v, <<"opt">>)
  /\ startsWith(MapGet(resources, <<"bar">>).definitions[1].v, <<"res">>)
  /\ report.orphanedResources = << <<"bar">> >>

\* C12: a Resource one of whose definition locations, for any language, starts with an
\* optional resource path is not in the orphaned list when it has no reference, in
\* whatever order the roots and languages were parsed.
C12_AnyDefinitionUnderOptionalPath ==
  Classified =>
    \A i \in 1..Len(resources) :
      LET resource == resources[i].v IN
      (/\ resource.references = <<>>
       /\ \E d \in 1..Len(resource.definitions) :
            UnderOptionalPath(resource.definitions[d].v))
        => resource.key \notin Range(report.orphanedResources)

(***************************************************************************)
(* Properties of a whole run (specification Spec).                         *)
(***************************************************************************)
\* en = {bar, foo}, ko = {bar}, and the one source file t('foo'); t('unknown'); told
\* by what the run left in the shared map: the translations of bar and foo, and the
\* references at lines 1 and 2 of the source file.
BadStringsExample ==
  /\ options.checkForOrphanedStrings /\ options.checkForUntranslatedStrings
  /\ optionalResourcePaths = <<>>
  /\ MapKeys(resources) = << <<"bar">>, <<"foo">>, <<"unknown">> >>
  /\ MapKeys(MapGet(resources, <<"bar">>).translations) = <<"en", "ko">>
  /\ MapKeys(MapGet(resources, <<"foo">>).translations) = <<"en">>
  /\ MapGet(resources, <<"unknown">>).translations = <<>>
  /\ \A i \in 1..Len(resources) : ~resources[i].v.isIgnored
  /\ MapGet(resources, <<"bar">>).references = <<>>
  /\ MapGet(resources, <<"foo">>).references = << <<"src", "/", "app", ".tsx", ":", "1">> >>
  /\ MapGet(resources, <<"unknown">>).references
       = << <<"src", "/", "app", ".tsx", ":", "2">> >>

\* C13: the run over en = {bar, foo}, ko = {bar} and t('foo'); t('unknown'); reports 2
\* strings, 2 languages and 1 source file, foo as untranslated in ko, bar as orphaned,
\* the one non-fatal problem of the unknown string, and exits with a non-zero code.
C13_BadStringsExample ==
  (Classified /\ BadStringsExample) =>
    /\ report.output.summary =
         << <<"Inspected ", "2", " ", "string", "s", ", translations in ", "2", " ",
              "language", "s", ", and references in ", "1", " ", "source code file">> >>
    /\ report.untranslatedResources =
         << [missingLanguageTags |-> <<"ko">>, resource |-> <<"foo">>] >>
    /\ report.orphanedResources = << <<"bar">> >>
    /\ sourceCodeProblems =
         << Problem(<<"Reference to unknown string '", "unknown", "' at ",
                      "src", "/", "app", ".tsx", ":", "2">>, FALSE) >>
    /\ Len(report.output.problems) = 2
    /\ report.exitCode # 0

C13_Witness ==
  /\ Classified
  /\ BadStringsExample
  /\ report.definedResources = << <<"bar">>, <<"foo">> >>
  /\ sourceCodeFilesWithResourceReferences = << <<"src", "/", "app", ".tsx">> >>

\* C14: a run that went through the classification exits with a non-zero code exactly
\* when the orphaned list or the problems list is not empty; untranslated findings
\* alone leave the exit code zero.
C14_ExitCode ==
  Classified =>
    (report.exitCode # 0 <=> (report.orphanedResources # <<>> \/ sourceCodeProblems # <<>>))

\* A string is untranslated, nothing is orphaned, there is no problem: exit code 0.
C14_Witness ==
  /\ Classified
  /\ report.untranslatedResources # <<>>
  /\ report.orphanedResources = <<>>
  /\ sourceCodeProblems = <<>>
  /\ report.exitCode = 0

\* processSourceCodeFiles returns to the script in this step.
SourceRootReturns ==
  /\ pc = "processSourceCodeFiles"
  /\ scan = Idle
  /\ pc' # pc \/ pathIndex' # pathIndex

\* The run ends in this step with the failure of a discovery: no report, exit code 1.
Aborts == pc' = "exit" /\ report' = [NoReport EXCEPT !.exitCode = 1]

\* C15 as stated: the run is aborted for a source root exactly when no file with a
\* source code extension was found under the root.
C15_AbortIffNoSourceFile ==
  [][SourceRootReturns => (Aborts <=> entryIndex = 0)]_vars

\* C15, amended: the run is aborted for a source root exactly when no source file
\* under the root gave a string reference or a problem.
C15_AbortIffNoStringReference ==
  [][SourceRootReturns =>
       (Aborts <=> /\ sourceCodeProblems = <<>>
                   /\ \A i \in 1..Len(resources) : resources[i].v.references = <<>>)]_vars

\* A source file was parsed and gave neither a reference nor a problem: the root is
\* about to return without any file.
C15_Witness ==
  /\ pc = "processSourceCodeFiles"
  /\ scan = Idle
  /\ entryIndex = 1
  /\ files = <<>>
  /\ sourceCodeProblems = <<>>
  /\ \A i \in 1..Len(resources) : resources[i].v.references = <<>>

(***************************************************************************)
(* Termination of a run (specification SpecSource).                        *)
(***************************************************************************)
\* C17: a run ends with the classification or with the failure of a discovery, and
\* never with an uncaught error raised while a first argument is resolved.
C17_NoUncaughtError == pc # "crash"

(***************************************************************************)
(* Directories.  A directory entry is a record with its name, its kind     *)
(* and, for a directory, its own entries in the order readdir yields them. *)
(* A name is a list of tokens: a word of letters and digits (two or more), *)
(* "_", "-", or a suffix that starts with "." and goes on with letters.    *)
(* A language tag here is the list of tokens the pattern captured.         *)
(***************************************************************************)
File(name) == [name |-> name, kind |-> "file", entries |-> <<>>]

Directory(name, entries) == [name |-> name, kind |-> "directory", entries |-> entries]

isFile(directoryEntry) == directoryEntry.kind = "file"

isDirectory(directoryEntry) == directoryEntry.kind = "directory"

Least(numbers) == CHOOSE x \in numbers : \A y \in numbers : x <= y

Greatest(numbers) == CHOOSE x \in numbers : \A y \in numbers : x >= y

\* readdir(directoryPath, {withFileTypes: true}) in the file system under `root`, a
\* directory named by its path.
RECURSIVE readdir(_, _)
readdir(directoryPath, root) ==
  IF directoryPath = root.name THEN root.entries
  ELSE LET below(e) == FilePath(root.name, e.name)
           child == CHOOSE e \in Range(root.entries) :
                      /\ isDirectory(e)
                      /\ \/ directoryPath = below(e)
                         \/ startsWith(directoryPath, below(e) \o <<"/">>)
       IN readdir(directoryPath, [child EXCEPT !.name = below(child)])

\* The names in the order of localeCompare.
Collation ==
  << <<"app", "-", "en", ".properties">>, <<"app", ".tsx">>, <<"en">>,
     <<"en", "_", "US", ".properties">>, <<"en", "-", "US">>,
     <<"en", "-", "US", ".properties">>, <<"en", ".bak", ".properties">>,
     <<"en", ".properties">>, <<"en", ".properties", ".bak">>, <<"fr">>, <<"ko">>, <<"ko", ".properties">>, <<"lib">>,
     <<"lib", ".tsx">>, <<"locales">>, <<"node_modules">>, <<"notes", ".md">>,
     <<"translations", ".properties">>, <<"util", ".tsx">> >>

\* The entries of one kind sorted with a.name.localeCompare(b.name).
SortedByName(entries, kind) ==
  LET names == SelectSeq(Collation, LAMBDA name :
                 \E i \in 1..Len(entries) : entries[i].name = name /\ entries[i].kind = kind)
  IN [j \in 1..Len(names) |-> CHOOSE e \in Range(entries) : e.name = names[j]]

\* directoryEntries without the directories.
directoryEntriesFilesOnly(directoryPath, root) ==
  SortedByName(readdir(directoryPath, root), "file")

\* (await readdir(directoryPath, {withFileTypes: true})).sort(filesBeforeDirectories)
directoryEntries(directoryPath, root) ==
  SortedByName(readdir(directoryPath, root), "file")
    \o SortedByName(readdir(directoryPath, root), "directory")

\* The tokens that start with "."
Suffixes == {".json", ".jsonc", ".properties", ".bak", ".tsx", ".md"}

\* \w is the first, the last character of the token.
StartsWithWordCharacter(token) == token # "-" /\ token \notin Suffixes
EndsWithWordCharacter(token) == token # "-"

\* The token is made of characters of [-0-9A-Za-z].
IsLanguageTagToken(token) ==
  \/ token = "-"
  \/ StartsWithWordCharacter(token) /\ token \notin {"_", "node_modules"}

\* \b after the first i tokens of the name.
WordBoundary(name, i) ==
  LET before == i >= 1 /\ EndsWithWordCharacter(name[i])
      after == i < Len(name) /\ StartsWithWordCharacter(name[i + 1])
  IN before # after

\* The base language tag is token i of the name, as a whole word.
WholeWordAt(name, i) ==
  /\ name[i] = options.baseLanguageTag
  /\ WordBoundary(name, i - 1)
  /\ WordBoundary(name, i)

\* BaseLanguageMatch with the tag anywhere in a directory's name, and for a file
\* anywhere before one of the extensions.
BaseLanguageMatchAnywhere(directoryEntry) ==
  LET name == directoryEntry.name
      at == IF isFile(directoryEntry)
            THEN {i \in 1..Len(name) : /\ WholeWordAt(name, i)
                                       /\ \E j \in (i + 1)..Len(name) :
                                            name[j] \in Range(options.resourceExtensions)}
            ELSE {i \in 1..Len(name) : WholeWordAt(name, i)}
  IN IF at = {} THEN [matched |-> FALSE, name |-> <<>>]
     ELSE [matched |-> TRUE, name |-> SubSeq(name, 1, Greatest(at) - 1)]

\* new RegExp('^(?<name>.*)' + '\\b<tag>\\b' + (isFile ? '.*(<extensions>)' : '') + '$')
\*   .exec(directoryEntry.name): whether it matched, and the group `name` (greedy).
BaseLanguageMatch(directoryEntry) ==
  LET name == directoryEntry.name
      at == IF isFile(directoryEntry)
            THEN {i \in 1..(Len(name) - 1) :
                    /\ WholeWordAt(name, i)
                    /\ name[Len(name)] \in Range(options.resourceExtensions)}
            ELSE {i \in {Len(name)} : WholeWordAt(name, i)}
  IN IF at = {} THEN [matched |-> FALSE, name |-> <<>>]
     ELSE [matched |-> TRUE, name |-> SubSeq(name, 1, Greatest(at) - 1)]

\* The return value of findBaseLanguage when nothing was found.
undefined ==
  [defined |-> FALSE, directoryEntry |-> [name |-> <<>>, kind |-> "", path |-> <<>>],
   name |-> <<>>]

\* The first loop of findBaseLanguage skips this entry.
Skipped(directoryEntry) ==
  /\ ~isDirectory(directoryEntry) \/ directoryEntry.name = <<"node_modules">>
  /\ ~isFile(directoryEntry)

\* {directoryEntry, regularExpression} for a matching entry: the entry with its path,
\* and of the regular expression the escaped group `name` it begins with.
BaseLanguage(directoryPath, directoryEntry) ==
  [defined |-> TRUE,
   directoryEntry |-> [name |-> directoryEntry.name, kind |-> directoryEntry.kind,
                       path |-> directoryPath],
   name |-> BaseLanguageMatch(directoryEntry).name]

\* findBaseLanguage returning the last match of the directory, and nothing else.
findBaseLanguageLast(directoryPath, root) ==
  LET entries == readdir(directoryPath, root)
      matching == {i \in 1..Len(entries) :
                     ~Skipped(entries[i]) /\ BaseLanguageMatch(entries[i]).matched}
  IN IF matching # {} THEN BaseLanguage(directoryPath, entries[Greatest(matching)])
     ELSE undefined

\* findBaseLanguage(directoryPath): the first match of the directory, else the first
\* result of the subdirectories, from entry i on, that is not undefined.
RECURSIVE findBaseLanguage(_, _), findBaseLanguageBelow(_, _, _)
findBaseLanguage(directoryPath, root) ==
  LET entries == readdir(directoryPath, root)
      matching == {i \in 1..Len(entries) :
                     ~Skipped(entries[i]) /\ BaseLanguageMatch(entries[i]).matched}
  IN IF matching # {} THEN BaseLanguage(directoryPath, entries[Least(matching)])
     ELSE findBaseLanguageBelow(directoryPath, root, 1)

findBaseLanguageBelow(directoryPath, root, i) ==
  LET entries == readdir(directoryPath, root) IN
  IF i > Len(entries) THEN undefined
  ELSE IF isDirectory(entries[i])
    THEN LET result == findBaseLanguage(FilePath(directoryPath, entries[i].name), root)
         IN IF result.defined THEN result
            ELSE findBaseLanguageBelow(directoryPath, root, i + 1)
  ELSE findBaseLanguageBelow(directoryPath, root, i + 1)

\* baseLanguage.regularExpression.exec(name): the group languageTag, <<>> without a
\* match.  '^' + escaped name + '\\b(?<languageTag>[-0-9A-Za-z]{2,})\\b'
\*   + (isFile ? '(?:<extensions>)' : '') + '$'; a tag between two word boundaries
\* begins and ends with a word, so it has two characters or more.
LanguageTag(baseLanguage, name) ==
  LET last == IF isFile(baseLanguage.directoryEntry) THEN Len(name) - 1 ELSE Len(name)
      languageTag == SubSeq(name, Len(baseLanguage.name) + 1, last)
  IN IF /\ startsWith(name, baseLanguage.name)
        /\ languageTag # <<>>
        /\ \A i \in 1..Len(languageTag) : IsLanguageTagToken(languageTag[i])
        /\ WordBoundary(name, Len(baseLanguage.name))
        /\ WordBoundary(name, last)
        /\ isFile(baseLanguage.directoryEntry)
             => name[Len(name)] \in Range(options.resourceExtensions)
     THEN languageTag
     ELSE <<>>

\* The recursionContext parameter of processResourceFiles: absent, or {languageTag}.
NoRecursionContext == [present |-> FALSE, languageTag |-> <<>>]

\* The recursion context with the base language tag, whatever was captured.
RecursionContextOfBaseLanguage(languageTag) ==
  [present |-> TRUE, languageTag |-> <<options.baseLanguageTag>>]

RecursionContext(languageTag) == [present |-> TRUE, languageTag |-> languageTag]

\* processResourceFiles(directoryPath, {baseLanguage}, recursionContext): the files
\* given to addAndProcessFile, in this order, from entry i of the sorted listing on.
RECURSIVE processResourceFiles(_, _, _, _), processResourceFilesFrom(_, _, _, _, _)
processResourceFiles(directoryPath, root, baseLanguage, recursionContext) ==
  processResourceFilesFrom(directoryPath, root, baseLanguage, recursionContext, 1)

processResourceFilesFrom(directoryPath, root, baseLanguage, recursionContext, i) ==
  LET entries == directoryEntries(directoryPath, root) IN
  IF i > Len(entries) THEN <<>>
  ELSE
    LET directoryEntry == entries[i]
        path == FilePath(directoryPath, directoryEntry.name)
        match == LanguageTag(baseLanguage, directoryEntry.name)
        rest == processResourceFilesFrom(directoryPath, root, baseLanguage,
                                         recursionContext, i + 1)
    IN IF isDirectory(directoryEntry) /\ directoryEntry.name # <<"node_modules">>
         THEN IF isDirectory(baseLanguage.directoryEntry) /\ ~recursionContext.present
              THEN IF match # <<>>
                   THEN processResourceFiles(path, root, baseLanguage,
                                             RecursionContext(match)) \o rest
                   ELSE rest
              ELSE processResourceFiles(path, root, baseLanguage,
                     RecursionContext(recursionContext.languageTag)) \o rest
       ELSE IF /\ isFile(directoryEntry)
               /\ nameMatchesExtensions(directoryEntry.name, options.resourceExtensions)
         THEN IF isDirectory(baseLanguage.directoryEntry)
              THEN IF recursionContext.present
                   THEN << [filePath |-> path,
                            languageTag |-> recursionContext.languageTag] >> \o rest
                   ELSE rest
              ELSE IF match # <<>>
                   THEN << [filePath |-> path, languageTag |-> match] >> \o rest
                   ELSE rest
       ELSE rest

\* processSourceCodeFiles(directoryPath): the files given to parseSourceCodeFile, in
\* this order, from entry i of the sorted listing on.
RECURSIVE processSourceCodeFiles(_, _), processSourceCodeFilesFrom(_, _, _)
processSourceCodeFiles(directoryPath, root) ==
  processSourceCodeFilesFrom(directoryPath, root, 1)

processSourceCodeFilesFrom(directoryPath, root, i) ==
  LET entries == directoryEntries(directoryPath, root) IN
  IF i > Len(entries) THEN <<>>
  ELSE
    LET directoryEntry == entries[i]
        path == FilePath(directoryPath, directoryEntry.name)
        rest == processSourceCodeFilesFrom(directoryPath, root, i + 1)
    IN IF isDirectory(directoryEntry) /\ directoryEntry.name # <<"node_modules">>
         THEN processSourceCodeFiles(path, root) \o rest
       ELSE IF /\ isFile(directoryEntry)
               /\ nameMatchesExtensions(directoryEntry.name, options.sourceCodeExtensions)
         THEN <<path>> \o rest
       ELSE rest

(***************************************************************************)
(* The discovery of a run: the base language of the resource root, the     *)
(* resource files and the source files that are parsed, and the findings   *)
(* when every resource file is a properties file and every source file is  *)
(* t('foo');.  The run is made twice, over two listings of the same        *)
(* directory by the operating system.                                      *)
(***************************************************************************)
\* readFile(filePath) of a resource file: foo and bar in en.properties, foo elsewhere.
ReadFile(filePath) ==
  IF endsWith(filePath, <<"/", "en", ".properties">>)
  THEN << [kind |-> "property", key |-> <<"foo">>, value |-> <<"Foo">>],
          [kind |-> "property", key |-> <<"bar">>, value |-> <<"Bar">>] >>
  ELSE << [kind |-> "property", key |-> <<"foo">>, value |-> <<"Foo">>] >>

\* addAndProcessFile for each of the files, from file i on.
RECURSIVE ParseResourceFiles(_, _, _)
ParseResourceFiles(fs, i, rs) ==
  IF i > Len(fs) THEN rs
  ELSE ParseResourceFiles(fs, i + 1,
         PropertiesParse(ReadFile(fs[i].filePath),
                         [filePath |-> fs[i].filePath, languageTag |-> fs[i].languageTag], rs))

\* parseSourceCodeFile for each of the paths, from path i on: the call t('foo') on line 1.
RECURSIVE ParseSourceCodeFiles(_, _, _)
ParseSourceCodeFiles(paths, i, acc) ==
  IF i > Len(paths) THEN acc
  ELSE ParseSourceCodeFiles(paths, i + 1,
         ReferenceLiterals(processNode(Key("foo", 1)).stringLiterals, 1, paths[i], acc))

\* The script over one resource root and one source root with these entries.
Run(resourceEntries, sourceEntries) ==
  LET resourceRoot == Directory(options.resourcePaths[1], resourceEntries)
      sourceRoot == Directory(options.sourceCodePaths[1], sourceEntries)
      baseLanguage == findBaseLanguage(resourceRoot.name, resourceRoot)
      resourceFiles ==
        IF baseLanguage.defined
        THEN processResourceFiles(baseLanguage.directoryEntry.path, resourceRoot,
                                  baseLanguage, NoRecursionContext)
        ELSE <<>>
      sourceCodeFiles ==
        IF baseLanguage.defined THEN processSourceCodeFiles(sourceRoot.name, sourceRoot)
        ELSE <<>>
      parsed == ParseSourceCodeFiles(sourceCodeFiles, 1,
                  [resources |-> ParseResourceFiles(resourceFiles, 1, <<>>),
                   problems |-> <<>>, created |-> 0, referencedResources |-> <<>>])
  IN [matches |-> [i \in 1..Len(resourceEntries) |-> BaseLanguageMatch(resourceEntries[i])],
      baseLanguage |-> baseLanguage,
      resourceFiles |-> resourceFiles,
      sourceCodeFiles |-> sourceCodeFiles,
      problems |-> parsed.problems,
      report |-> IF sourceCodeFiles = <<>> THEN [NoReport EXCEPT !.exitCode = 1]
                 ELSE Analyze(parsed.resources, options, optionalResourcePaths,
                              PushFiles(<<>>, resourceFiles), parsed.problems,
                              sourceCodeFiles)]

MaxEntries == 3

Translations == File(<<"translations", ".properties">>)

ResourceEntries ==
  { File(<<"en", ".properties">>),
    File(<<"app", "-", "en", ".properties">>),
    File(<<"ko", ".properties">>),
    File(<<"en", ".properties", ".bak">>),
    File(<<"en", "_", "US", ".properties">>),
    File(<<"en", "-", "US", ".properties">>),
    File(<<"en", ".bak", ".properties">>),
    Directory(<<"en">>, <<Translations>>),
    Directory(<<"ko">>, <<Translations>>),
    Directory(<<"fr">>, << File(<<"notes", ".md">>),
                           Directory(<<"node_modules">>, <<Translations>>),
                           Translations >>),
    Directory(<<"en", "-", "US">>, <<Translations>>),
    Directory(<<"locales">>, <<File(<<"ko", ".properties">>), File(<<"en", ".properties">>)>>),
    Directory(<<"node_modules">>, <<File(<<"en", ".properties">>)>>),
    Directory(<<"lib">>, <<Directory(<<"en">>, <<Translations>>)>>) }

SourceEntries ==
  { File(<<"app", ".tsx">>),
    File(<<"notes", ".md">>),
    Directory(<<"node_modules">>, <<File(<<"lib", ".tsx">>)>>),
    Directory(<<"lib">>, << Directory(<<"node_modules">>, <<File(<<"lib", ".tsx">>)>>),
                            File(<<"util", ".tsx">>) >>) }

\* The listings of at most MaxEntries of these entries, each entry once.
Listings(entries) ==
  UNION { {listing \in [1..n -> entries] :
             \A i, j \in 1..n : i # j => listing[i] # listing[j]} : n \in 0..MaxEntries }

Reverse(s) == [i \in 1..Len(s) |-> s[Len(s) + 1 - i]]

\* A resource root of any listing beside the source root of app.tsx, or the resource
\* root of en.properties beside a source root of any listing; the second listing of
\* the resource root has the same entries in the opposite order.
InitDiscover ==
  /\ InitWith(CommandLineOptions(<< <<"res">> >>, << <<"src">> >>), <<>>)
  /\ \E resourceEntries \in Listings(ResourceEntries), sourceEntries \in Listings(SourceEntries) :
       /\ \/ sourceEntries = <<File(<<"app", ".tsx">>)>>
          \/ resourceEntries = <<File(<<"en", ".properties">>)>>
       /\ probe = [node |-> [first |-> resourceEntries, second |-> Reverse(resourceEntries),
                             source |-> sourceEntries],
                   result |-> Idle]

Discover ==
  /\ probe.result = Idle
  /\ probe' = [probe EXCEPT !.result = [first |-> Run(probe.node.first, probe.node.source),
                                        second |-> Run(probe.node.second, probe.node.source)]]
  /\ UNCHANGED <<options, optionalResourcePaths, resourceFilesByLanguageTag, resources,
                 sourceCodeProblems, pc, pathIndex, entryIndex, files, parser, scan,
                 sourceCodeFilesWithResourceReferences, report>>

NextDiscover == Discover

SpecDiscover == InitDiscover /\ [][NextDiscover]_vars

(***************************************************************************)
(* Properties of the discovery (specification SpecDiscover).               *)
(***************************************************************************)
Discovered == probe.result # Idle

\* C16: two runs over the same file-system contents, listed by the operating system
\* in two orders, give the same untranslated, orphaned and problems lists, in the
\* same order.
C16_SameFindingsInAnyListingOrder ==
  Discovered =>
    /\ probe.result.first.report.untranslatedResources
         = probe.result.second.report.untranslatedResources
    /\ probe.result.first.report.orphanedResources
         = probe.result.second.report.orphanedResources
    /\ probe.result.first.problems = probe.result.second.problems

\* Some entry of these entries or of the directories below them matches.
RECURSIVE AnyMatchIn(_)
AnyMatchIn(entries) ==
  \E i \in 1..Len(entries) :
    \/ BaseLanguageMatch(entries[i]).matched
    \/ isDirectory(entries[i]) /\ AnyMatchIn(entries[i].entries)

\* C18: when an entry directly inside the directory matches, findBaseLanguage returns
\* the first matching entry of the directory in listing order, never a deeper one;
\* when none does, the first result of its subdirectories, in listing order, that is
\* not undefined; and undefined exactly when no entry of the whole tree matches.
C18_TwoPhases ==
  Discovered =>
    LET entries == probe.node.first
        root == Directory(<<"res">>, entries)
        found == probe.result.first.baseLanguage
        direct == {i \in 1..Len(entries) : probe.result.first.matches[i].matched}
        below == {i \in 1..Len(entries) :
                    isDirectory(entries[i]) /\ AnyMatchIn(entries[i].entries)}
    IN /\ direct # {} =>
            /\ found.defined
            /\ found.directoryEntry.path = <<"res">>
            /\ found.directoryEntry.name = entries[Least(direct)].name
       /\ (direct = {} /\ below # {}) =>
            /\ found.defined
            /\ startsWith(found.directoryEntry.path,
                          FilePath(<<"res">>, entries[Least(below)].name))
            /\ found = findBaseLanguage(FilePath(<<"res">>, entries[Least(below)].name), root)
       /\ ~found.defined <=> ~AnyMatchIn(entries)

\* A directory with a match below it is listed before a matching file: the file is
\* returned.
C18_Witness ==
  /\ Discovered
  /\ Len(probe.node.first) >= 2
  /\ isDirectory(probe.node.first[1])
  /\ ~probe.result.first.matches[1].matched
  /\ AnyMatchIn(probe.node.first[1].entries)
  /\ probe.result.first.matches[2].matched
  /\ probe.result.first.baseLanguage.directoryEntry.name = probe.node.first[2].name
  /\ probe.result.first.baseLanguage.directoryEntry.path = <<"res">>

\* The name holds the base language tag as a whole word.
ContainsTag(name) == \E i \in 1..Len(name) : WholeWordAt(name, i)

\* C19 as stated: an entry matches exactly when its name holds the tag as a whole
\* word, wherever it stands, and for a file one of the extensions follows it anywhere
\* later in the name.
C19_TagAnywhere ==
  Discovered =>
    \A i \in 1..Len(probe.node.first) :
      LET name == probe.node.first[i].name IN
      probe.result.first.matches[i].matched
        <=> IF isFile(probe.node.first[i])
            THEN \E k \in 1..Len(name) :
                   /\ WholeWordAt(name, k)
                   /\ \E j \in (k + 1)..Len(name) :
                        name[j] \in Range(options.resourceExtensions)
            ELSE ContainsTag(name)

\* C19, amended: a directory matches exactly when the tag, as a whole word, ends its
\* name; a file exactly when its name holds the tag as a whole word before the end
\* and ends with one of the extensions.
C19_TagAtTheEnd ==
  Discovered =>
    \A i \in 1..Len(probe.node.first) :
      LET name == probe.node.first[i].name IN
      probe.result.first.matches[i].matched
        <=> IF isFile(probe.node.first[i])
            THEN /\ \E k \in 1..(Len(name) - 1) : WholeWordAt(name, k)
                 /\ nameMatchesExtensions(name, options.resourceExtensions)
            ELSE WholeWordAt(name, Len(name))

\* app-en.properties matches, the directory en-US and the file en.properties.bak do not.
C19_Witness ==
  /\ Discovered
  /\ \E i, j, k \in 1..Len(probe.node.first) :
       /\ probe.node.first[i].name = <<"app", "-", "en", ".properties">>
       /\ probe.result.first.matches[i] = [matched |-> TRUE, name |-> <<"app", "-">>]
       /\ probe.node.first[j].name = <<"en", "-", "US">>
       /\ ~probe.result.first.matches[j].matched
       /\ probe.node.first[k].name = <<"en", ".properties", ".bak">>
       /\ ~probe.result.first.matches[k].matched

\* C20: nothing beneath a directory named node_modules is returned as the base
\* language, parsed as a resource file or scanned as a source file.
C20_NothingBeneathNodeModules ==
  Discovered =>
    LET run == probe.result.first IN
    /\ "node_modules" \notin Range(run.baseLanguage.directoryEntry.path)
    /\ \A i \in 1..Len(run.resourceFiles) :
         "node_modules" \notin Range(run.resourceFiles[i].filePath)
    /\ \A i \in 1..Len(run.sourceCodeFiles) :
         "node_modules" \notin Range(run.sourceCodeFiles[i])

(***************************************************************************)
(* Properties of the resource walker (specification SpecDiscover).         *)
(***************************************************************************)
\* The files with a resource extension in these entries and in the directories below
\* them (those named node_modules too, or not), each with the tag given.
RECURSIVE ResourceFilesBeneath(_, _, _, _)
ResourceFilesBeneath(directoryPath, entries, languageTag, nodeModulesToo) ==
  UNION { IF isFile(entries[i])
          THEN IF nameMatchesExtensions(entries[i].name, options.resourceExtensions)
               THEN { [filePath |-> FilePath(directoryPath, entries[i].name),
                       languageTag |-> languageTag] }
               ELSE {}
          ELSE IF nodeModulesToo \/ entries[i].name # <<"node_modules">>
               THEN ResourceFilesBeneath(FilePath(directoryPath, entries[i].name),
                                         entries[i].entries, languageTag, nodeModulesToo)
               ELSE {}
        : i \in 1..Len(entries) }

\* The files of the language directories at the level of the anchor, each under the
\* tag the derived pattern captures from the name of its language directory.
LanguageDirectoryFiles(nodeModulesToo) ==
  LET found == probe.result.first.baseLanguage
      level == readdir(found.directoryEntry.path, Directory(<<"res">>, probe.node.first))
  IN UNION { IF isDirectory(level[i]) /\ LanguageTag(found, level[i].name) # <<>>
             THEN ResourceFilesBeneath(FilePath(found.directoryEntry.path, level[i].name),
                                       level[i].entries,
                                       LanguageTag(found, level[i].name), nodeModulesToo)
             ELSE {}
           : i \in 1..Len(level) }

DirectoryMode ==
  /\ Discovered
  /\ probe.result.first.baseLanguage.defined
  /\ isDirectory(probe.result.first.baseLanguage.directoryEntry)

FileMode ==
  /\ Discovered
  /\ probe.result.first.baseLanguage.defined
  /\ isFile(probe.result.first.baseLanguage.directoryEntry)

\* No file is twice in the list.
EachFileOnce(fs) == \A i, j \in 1..Len(fs) : fs[i].filePath = fs[j].filePath => i = j

\* C21 as stated: in directory mode the list returned holds exactly the files with a
\* resource extension at any depth beneath the directories of the anchor's level whose
\* name matches the derived pattern, each under the tag of its language directory.
C21_EveryFileBeneathLanguageDirectories ==
  DirectoryMode =>
    /\ Range(probe.result.first.resourceFiles) = LanguageDirectoryFiles(TRUE)
    /\ EachFileOnce(probe.result.first.resourceFiles)

\* C21, amended: the same, of the files that are not beneath a directory named
\* node_modules.
C21_LanguageDirectoriesOutsideNodeModules ==
  DirectoryMode =>
    /\ Range(probe.result.first.resourceFiles) = LanguageDirectoryFiles(FALSE)
    /\ EachFileOnce(probe.result.first.resourceFiles)

\* en/ is the anchor beside fr/ and the file ko.properties: the files of en/ and fr/
\* are parsed as en and fr, but for fr/node_modules/translations.properties, and
\* ko.properties is not parsed.
C21_Witness ==
  /\ DirectoryMode
  /\ \E i \in 1..Len(probe.node.first) : probe.node.first[i].name = <<"ko", ".properties">>
  /\ Range(probe.result.first.resourceFiles)
       = { [filePath |-> <<"res", "/", "en", "/", "translations", ".properties">>,
            languageTag |-> <<"en">>],
           [filePath |-> <<"res", "/", "fr", "/", "translations", ".properties">>,
            languageTag |-> <<"fr">>] }

\* The files with a resource extension in these entries and in the directories below
\* them, node_modules left out, whose name matches the derived pattern, with their tag.
RECURSIVE MatchingFilesBeneath(_, _)
MatchingFilesBeneath(directoryPath, entries) ==
  UNION { IF isFile(entries[i])
          THEN IF /\ nameMatchesExtensions(entries[i].name, options.resourceExtensions)
                  /\ LanguageTag(probe.result.first.baseLanguage, entries[i].name) # <<>>
               THEN { [filePath |-> FilePath(directoryPath, entries[i].name),
                       languageTag |-> LanguageTag(probe.result.first.baseLanguage,
                                                   entries[i].name)] }
               ELSE {}
          ELSE IF entries[i].name # <<"node_modules">>
               THEN MatchingFilesBeneath(FilePath(directoryPath, entries[i].name),
                                         entries[i].entries)
               ELSE {}
        : i \in 1..Len(entries) }

\* C22 as stated: in file mode the list returned holds exactly the matching files
\* anywhere under the configured resource root, outside node_modules.
C22_MatchingFilesUnderTheRoot ==
  FileMode =>
    /\ Range(probe.result.first.resourceFiles)
         = MatchingFilesBeneath(<<"res">>, probe.node.first)
    /\ EachFileOnce(probe.result.first.resourceFiles)

\* C22, amended: in file mode the list returned holds exactly the matching files
\* anywhere under the directory that holds the anchor, outside node_modules.
C22_MatchingFilesUnderTheAnchorDirectory ==
  FileMode =>
    /\ Range(probe.result.first.resourceFiles)
         = MatchingFilesBeneath(
             probe.result.first.baseLanguage.directoryEntry.path,
             readdir(probe.result.first.baseLanguage.directoryEntry.path,
                     Directory(<<"res">>, probe.node.first)))
    /\ EachFileOnce(probe.result.first.resourceFiles)

\* The anchor is res/en.properties: ko.properties of res/locales is parsed as ko, and
\* en.properties.bak beside the anchor is not parsed.
C22_Witness ==
  /\ FileMode
  /\ probe.result.first.baseLanguage.directoryEntry.path = <<"res">>
  /\ \E i \in 1..Len(probe.node.first) :
       probe.node.first[i].name = <<"en", ".properties", ".bak">>
  /\ [filePath |-> <<"res", "/", "locales", "/", "ko", ".properties">>,
      languageTag |-> <<"ko">>] \in Range(probe.result.first.resourceFiles)
  /\ Len(probe.result.first.resourceFiles) = 3

(***************************************************************************)
(* Properties of the ignore directives of JSONC files (SpecParse).         *)
(***************************************************************************)
\* visit() reports a comment that holds the directive of this marker.
DirectiveComment(marker) ==
  \E text \in Comments, startLine \in 0..MaxLine :
    /\ JsoncDirective(text) = marker
    /\ onComment(text, startLine)

\* visit() reports a literal.
Literal ==
  \E property \in Properties, startLine \in 0..MaxLine :
    onLiteralValue(property.value, startLine, <<Name(property.name)>>)

\* C23: an i18nspector-ignore-end comment ends the block wherever it appears in the
\* file: once it is visited the parser is not ignoring until an end directive.
C23_IgnoreEndEndsTheBlock ==
  [][DirectiveComment("end") => ~parser'.ignoreUntilEndDirective]_vars

(***************************************************************************)
(* JSONC documents of up to three lines (specification SpecLines).         *)
(***************************************************************************)
MaxLines == 2

NextLines ==
  \/ FindBaseLanguage
  \/ NoBaseLanguage
  \/ \E i \in 1..Len(DirectoryOrder) : AddAndProcessJsoncFile(i)
  \/ JsoncEvent(MaxEvents, MaxLaterEvents, MaxLines)
  \/ JsoncReturn
  \/ ProcessResourceFilesReturn

SpecLines == InitParse /\ [][NextLines]_vars

\* visit() reports this property on this line, and its Resource, not ignored before
\* and outside a begin/end block, is marked ignored.
LiteralMarked(property, startLine) ==
  LET resourceKey == ResourceKey(parser.path \o <<Name(property.name)>>) IN
  /\ onLiteralValue(property.value, startLine, <<Name(property.name)>>)
  /\ ~parser.ignoreUntilEndDirective
  /\ ~GetOrCreate(resources, resourceKey).isIgnored
  /\ MapGet(resources', resourceKey).isIgnored

\* C24: a plain i18nspector-ignore comment marks no other literal than those on its
\* own line and those inside an object opened on its line, until that object closes:
\* a literal that is marked outside a block lies on a line with a plain directive or
\* inside an open object whose opening line has one.
C24_PlainDirectiveMarksItsLineOrObject ==
  [][\A property \in Properties, startLine \in 0..MaxLines :
       LiteralMarked(property, startLine) =>
         \/ startLine \in parser.ignoreLines
         \/ \E k \in 1..Len(parser.objectStartLines) :
              parser.objectStartLines[k] \in parser.ignoreLines]_vars

\* C30: the directive state of the JSONC parser belongs to one file and is bounded:
\* before the first event of every file depth is 0, ignoreDepth is Infinity,
\* ignoreLineNumber is -1 and ignoreUntilEndDirective is false, whatever the files
\* before left behind; after every event depth is not negative and ignoreDepth is
\* Infinity or at most depth.
C30_DirectiveStatePerFileAndBounded ==
  Parsing =>
    /\ parser.events = 0 =>
         /\ parser.depth = 0
         /\ parser.ignoreDepth = POSITIVE_INFINITY
         /\ parser.ignoreLineNumber = -1
         /\ ~parser.ignoreUntilEndDirective
    /\ parser.depth >= 0
    /\ parser.ignoreDepth = POSITIVE_INFINITY \/ parser.ignoreDepth <= parser.depth

\* The second file of a root is inside an ignored object, and a key of the first file
\* was marked ignored.
C30_Witness ==
  /\ Parsing
  /\ Len(files) = 2
  /\ parser.depth >= 1
  /\ parser.ignoreDepth = parser.depth
  /\ \E i \in 1..Len(resources) : resources[i].v.isIgnored

(***************************************************************************)
(* The properties parser on files of up to MaxFileLines lines              *)
(* (specification SpecProperties).                                         *)
(***************************************************************************)
MaxFileLines == 5

InitProperties ==
  /\ InitWith(CommandLineOptions(<< <<"res">> >>, << <<"src">> >>), <<>>)
  /\ \E lines \in UNION {[1..n -> PropertiesLines] : n \in 0..MaxFileLines} :
       probe = [node |-> lines, result |-> Idle]

\* parse(buffer, context) of res/ko.properties, on an empty map.
ParseProperties ==
  /\ probe.result = Idle
  /\ probe' = [probe EXCEPT
                 !.result = [resources |->
                   PropertiesParse(probe.node,
                     [filePath |-> <<"res", "/", "ko", ".properties">>,
                      languageTag |-> "ko"], <<>>)]]
  /\ UNCHANGED <<options, optionalResourcePaths, resourceFilesByLanguageTag, resources,
                 sourceCodeProblems, pc, pathIndex, entryIndex, files, parser, scan,
                 sourceCodeFilesWithResourceReferences, report>>

NextProperties == ParseProperties

SpecProperties == InitProperties /\ [][NextProperties]_vars

\* The number of ranges open after the first n lines, when every ignore-begin line
\* opens a range and every ignore-end line closes the open range opened last.
RECURSIVE OpenRanges(_, _)
OpenRanges(lines, n) ==
  IF n = 0 THEN 0
  ELSE LET before == OpenRanges(lines, n - 1)
           marker == IF IsKeyLine(lines[n]) THEN "none"
                     ELSE PropertiesDirective(lines[n].text)
       IN IF marker = "begin" THEN before + 1
          ELSE IF marker = "end" /\ before > 0 THEN before - 1
          ELSE before

\* The key of the Resource of a property: its base key when it is a plural form.
BaseKeyOf(key) == IF RESOURCE_KEY_REGEXP(key) # <<>> THEN RESOURCE_KEY_REGEXP(key) ELSE key

\* The Resource of this line is not the Resource of a later line of the file.
LastOfItsKey(lines, n) ==
  \A later \in (n + 1)..Len(lines) :
    lines[later].kind = "property" => BaseKeyOf(lines[later].key) # BaseKeyOf(lines[n].key)

\* C25: in a properties file a key is marked ignored if and only if its starting line
\* lies inside a range that an ignore-begin line opened and no ignore-end line has
\* closed, each ignore-end closing the open range opened last: after as many ends as
\* begins no key is ignored.
C25_IgnoredIffInsideAnOpenRange ==
  probe.result # Idle =>
    \A n \in 1..Len(probe.node) :
      probe.node[n].kind = "property" /\ LastOfItsKey(probe.node, n) =>
        (MapGet(probe.result.resources, BaseKeyOf(probe.node[n].key)).isIgnored
           <=> OpenRanges(probe.node, n - 1) > 0)

(***************************************************************************)
(* Properties of the resolver on other nodes (specification SpecResolve).  *)
(***************************************************************************)
\* A string literal, a conditional expression or a template literal with
\* interpolations.
LiteralOrBranching(node) ==
  \/ node.type \in {"StringLiteral", "ConditionalExpression"}
  \/ node.type = "TemplateLiteral" /\ node.expressions # <<>>

\* C26: the resolver applied to any node that is not a string literal, a conditional
\* expression or a template literal with interpolations returns exactly one
\* non-literal expression, the node, and no literal options.
C26_OtherNodesAreNonLiterals ==
  probe.result # Idle /\ ~LiteralOrBranching(probe.node) =>
    probe.result = Resolved(<<probe.node>>, <<>>)

(***************************************************************************)
(* Properties of the shared map at classification (specification Spec).    *)
(***************************************************************************)
\* A Resource made for a reference to an unknown key.
Placeholder(resource) == resource.definitions = <<>>

\* C27: every Resource of the shared map without definitions has at least one
\* reference and no translation, and the definitions and the translations of every
\* Resource have the same language tags; at classification no such Resource is counted
\* as defined or listed as orphaned or untranslated, and the first definition of a
\* Resource without definitions is never read for the optional-path test.
C27_PlaceholdersAreReferencedAndUntranslated ==
  /\ \A i \in 1..Len(resources) :
       LET resource == resources[i].v IN
       /\ Placeholder(resource) => resource.references # <<>> /\ resource.translations = <<>>
       /\ Range(MapKeys(resource.definitions)) = Range(MapKeys(resource.translations))
  /\ ~AnalysisThrows(resources, options, optionalResourcePaths, sourceCodeProblems)
  /\ Classified =>
       \A i \in 1..Len(resources) :
         Placeholder(resources[i].v) =>
           /\ resources[i].k \notin Range(report.definedResources)
           /\ resources[i].k \notin Range(report.orphanedResources)
           /\ \A j \in 1..Len(report.untranslatedResources) :
                report.untranslatedResources[j].resource # resources[i].k

\* A run with an optional resource path and orphan checking is classified with no
\* fatal problem: the map holds a Resource without definitions and an orphan candidate
\* beside it.
C27_Witness ==
  /\ Classified
  /\ options.checkForOrphanedStrings
  /\ options.checkForUntranslatedStrings
  /\ optionalResourcePaths # <<>>
  /\ ~HasFatalProblem
  /\ \E i \in 1..Len(resources) : Placeholder(resources[i].v)
  /\ \E i \in 1..Len(resources) : Unreferenced(resources[i].v)
  /\ report.untranslatedResources # <<>>

(***************************************************************************)
(* Properties of the order of the phases (specification SpecRoots).        *)
(***************************************************************************)
\* A file of this resource root was parsed and recorded.
RootParsed(root) ==
  \E i \in 1..Len(resourceFilesByLanguageTag) :
    \E j \in 1..Len(resourceFilesByLanguageTag[i].v) :
      startsWith(resourceFilesByLanguageTag[i].v[j], root)

\* The source phase has begun: a source file is being scanned or has been.
SourcePhase ==
  \/ Scanning
  \/ sourceCodeProblems # <<>>
  \/ sourceCodeFilesWithResourceReferences # <<>>
  \/ \E i \in 1..Len(resources) : resources[i].v.references # <<>>

\* The definitions of the shared map, by key.
Definitions(rs) == [i \in 1..Len(rs) |-> [k |-> rs[i].k, v |-> rs[i].v.definitions]]

\* C28: every resource file of every resource root is parsed before the first source
\* file is analyzed (once a source file is looked at, every root has its files
\* recorded, no parser runs and no definition is added any more); classification runs
\* once, after the last source root; and a key with a definition in any root is never
\* named by a "Reference to unknown string" problem.
C28_ResourcesBeforeSourcesBeforeClassification ==
  /\ [](SourcePhase =>
          /\ parser = Idle
          /\ \A r \in 1..Len(options.resourcePaths) : RootParsed(options.resourcePaths[r]))
  /\ [][SourcePhase =>
          /\ resourceFilesByLanguageTag' = resourceFilesByLanguageTag
          /\ SelectSeq(Definitions(resources'), LAMBDA d : d.v # <<>>)
               = SelectSeq(Definitions(resources), LAMBDA d : d.v # <<>>)]_vars
  /\ [][report' # report /\ report'.output.summary # <<>> =>
          /\ report = NoReport
          /\ pc = "processSourceCodeFiles" /\ pc' = "exit"
          /\ pathIndex = Len(options.sourceCodePaths)
          /\ scan = Idle]_vars
  /\ [](\A i \in 1..Len(sourceCodeProblems), j \in 1..Len(resources) :
          startsWith(sourceCodeProblems[i].description,
                     <<"Reference to unknown string '">> \o resources[j].k \o <<"' at ">>)
            => resources[j].v.definitions = <<>>)

\* The run is classified after both source roots: foo is defined in the second
\* resource root only and referenced with no problem, baz is reported unknown.
C28_Witness ==
  /\ Classified
  /\ Len(sourceCodeFilesWithResourceReferences) = 2
  /\ Len(report.output.problems) = 2
  /\ MapHas(resources, <<"foo">>)
  /\ MapGet(resources, <<"foo">>).references # <<>>
  /\ \A d \in 1..Len(MapGet(resources, <<"foo">>).definitions) :
       startsWith(MapGet(resources, <<"foo">>).definitions[d].v,
                  options.resourcePaths[2])
  /\ MapHas(resources, <<"baz">>)
  /\ MapGet(resources, <<"baz">>).definitions = <<>>

(***************************************************************************)
(* The derived pattern on the anchor itself (specification SpecDiscover).  *)
(***************************************************************************)
\* C29: the derived pattern matches the name of the anchor findBaseLanguage returned
\* and captures the configured base-language tag from it, and an anchor that is a
\* file is parsed under the base tag.
C29_AnchorMatchesItsOwnPattern ==
  Discovered /\ probe.result.first.baseLanguage.defined =>
    LET baseLanguage == probe.result.first.baseLanguage
        anchor == baseLanguage.directoryEntry
    IN /\ LanguageTag(baseLanguage, anchor.name) = <<options.baseLanguageTag>>
       /\ isFile(anchor) =>
            [filePath |-> FilePath(anchor.path, anchor.name),
             languageTag |-> <<options.baseLanguageTag>>]
              \in Range(probe.result.first.resourceFiles)

====
